---------------------------- MODULE Spec2Model ----------------------------
(***************************************************************************)
(* Model of the FPL unified data service (src/fpl_service.py): the check   *)
(* cycle (sample -> detect -> refresh -> persist -> sleep), the refresh    *)
(* pipeline with its per-entity upserts, and the local state file.         *)
(*                                                                         *)
(* Time is counted in hours (the check interval and the deadline grace are *)
(* both one hour).  A deadline string such as "2024-03-01T11:00:00Z" is    *)
(* represented by the UTC hour it denotes; Python's None by NoneVal.       *)
(* Row payloads that no decision of the service depends on (names,         *)
(* strengths, prices, updated_at, the state file's timestamp) are left     *)
(* out: a Team, Player, Fixture, stat or ownership row is its key.         *)
(***************************************************************************)
EXTENDS Integers, Sequences, FiniteSets, TLC

\* ------------------------------------------------------------------ bounds
MaxGW == 2
MaxTeams == 1
MaxPlayers == 2
MaxFixtures == 1
MaxManagers == 1
MaxTime == 2
DstStart == 2
MaxFaults == 1
MaxKeys == 2
MaxVal == 1
MaxCopies == 2
MaxRequests == 3
MaxRuns == 2
MaxPrice == 8

\* --------------------------------------------------------- program constants
CheckInterval == 1
GraceHours == 1
NoneVal == -1

GWs == 1..MaxGW
TeamIds == 1..MaxTeams
PlayerIds == 1..MaxPlayers
FixtureIds == 1..MaxFixtures
ManagerIds == 1..MaxManagers

\* HTTP verbs that supabase_request dispatches on; anything else raises
\* ValueError inside its try block and comes back as None.
SupportedMethods == {"GET", "POST", "PUT", "PATCH"}

\* ------------------------------------------------------------- dictionaries
\* A metrics dict is a function from the keys it carries to integers.
EmptyDict == [k \in {} |-> 0]

Has(d, k) == k \in DOMAIN d

DictSet(d, k, v) == [x \in (DOMAIN d) \cup {k} |-> IF x = k THEN v ELSE d[x]]

\* ------------------------------------------------------------------- time
\* Offset of America/Los_Angeles from UTC at a given instant (PST / PDT).
UtcOffset(t) == IF t >= DstStart THEN -7 ELSE -8

\* datetime.fromisoformat(s.replace('Z', '+00:00')): an aware datetime in UTC.
FromIsoFormat(s) == [wall |-> s, off |-> 0]

\* dt.astimezone(self.local_tz): same instant, Pacific wall clock.
AsLocal(dt) == [wall |-> (dt.wall - dt.off) + UtcOffset(dt.wall - dt.off), off |-> UtcOffset(dt.wall - dt.off)]

\* dt + timedelta(hours=h): wall-clock arithmetic, the offset is kept.
PlusHours(dt, h) == [wall |-> dt.wall + h, off |-> dt.off]

\* A comparison that leaves out the boundary.
AwareGE_strict(a, b) == (a.wall - a.off) > (b.wall - b.off)

\* a >= b on aware datetimes compares the instants.
AwareGE(a, b) == (a.wall - a.off) >= (b.wall - b.off)

now_local(t) == AsLocal([wall |-> t, off |-> 0])

\* ---------------------------------------------------------------- upstream
\* deadline_time of event g in the bootstrap document.
DeadlineOf(g) == g

VARIABLES
  now,                   \* wall clock, hours
  fplCurrent,            \* upstream: id of the event flagged is_current (0: none)
  fplFinished,           \* upstream: events 1..fplFinished are flagged finished
  fplPlaying,            \* upstream: players that can have minutes in a live document
  countAggregated,       \* store answers select=count with one aggregate row
  teams, players, gameweeks, fixtures, player_gw_stats,
  user_entries, user_player_ownership, team_gw_stats,
  state_file,            \* service_state.json
  mode, pc, exit_status,
  current_metrics, changes_detected, deadline_fired,
  bootstrap_data, core_success, gameweeks_to_refresh, gw_queue, manager_queue,
  picks_gw, last_picks,
  last_stats,            \* the live document and the replies of the last player-stats sync
  last_cycle,            \* how the last check of the running process ended
  consumed,              \* deadlines recorded by a successful deadline-triggered refresh
  faults,                \* failed fetches and rejected requests so far
  table, last_upsert,    \* one store table with its rows, and the last batch upserted into it
  schema_error_logged,   \* the store client's _schema_error_logged attribute
  last_request,          \* the last call of a client, its result and its log entries
  last_main              \* the last invocation of main: arguments, what ran, exit status

envVars == <<now, fplCurrent, fplFinished, fplPlaying, countAggregated>>

\* State of the operations that are also studied on their own.
upsertVars == <<table, last_upsert>>

requestVars == <<schema_error_logged, last_request>>

unitVars == <<upsertVars, requestVars, last_main>>

\* A step in which the remote feed or the store fails some request; at most
\* MaxFaults steps of a behaviour are such steps.
Fails(faulty) ==
  /\ faulty => faults < MaxFaults
  /\ faults' = IF faulty THEN faults + 1 ELSE faults

storeVars == <<teams, players, gameweeks, fixtures, player_gw_stats, user_entries, user_player_ownership, team_gw_stats>>

cycleVars == <<current_metrics, changes_detected, deadline_fired>>

refreshVars == <<bootstrap_data, core_success, gameweeks_to_refresh, gw_queue, manager_queue, picks_gw, last_picks, last_stats>>

histVars == <<last_cycle, consumed>>

vars == <<envVars, storeVars, state_file, mode, pc, exit_status, cycleVars, refreshVars, histVars, faults, unitVars>>

\* ------------------------------------------------------------- store reads
\* GET /gameweeks?finished=eq.true&select=count
FinishedRows == {g \in DOMAIN gameweeks : gameweeks[g].finished}

CountReply(n) == IF countAggregated THEN << [count |-> n] >> ELSE [i \in 1..n |-> [count |-> 1]]

\* GET /gameweeks?is_current=eq.true
CurrentRows == {g \in DOMAIN gameweeks : gameweeks[g].is_current}

\* ------------------------------------------------------------ supabase_request
\* Result of one request: TRUE for a response, FALSE for None.
supabase_request(method, accepted) == IF method \in SupportedMethods THEN accepted ELSE FALSE

\* ------------------------------------------------------- get_current_metrics
\* A sample that counts a missing current gameweek as a failure.
get_current_metrics_noSentinel(finishedOk, currentOk, first) ==
  IF ~supabase_request("GET", finishedOk) THEN EmptyDict
  ELSE LET m1 == DictSet(EmptyDict, "finished_gameweeks", Len(CountReply(Cardinality(FinishedRows))))
       IN IF supabase_request("GET", currentOk) /\ first # 0
          THEN DictSet(DictSet(m1, "current_gameweek", first), "current_deadline", gameweeks[first].deadline_time)
          ELSE EmptyDict

\* finishedOk / currentOk: whether the two reads came back; first: the
\* row the store lists first among those flagged current (0 when none).
get_current_metrics(finishedOk, currentOk, first) ==
  IF ~supabase_request("GET", finishedOk) THEN EmptyDict
  ELSE LET m1 == DictSet(EmptyDict, "finished_gameweeks", Len(CountReply(Cardinality(FinishedRows))))
       IN IF supabase_request("GET", currentOk) /\ first # 0
          THEN DictSet(DictSet(m1, "current_gameweek", first), "current_deadline", gameweeks[first].deadline_time)
          ELSE DictSet(DictSet(m1, "current_gameweek", 0), "current_deadline", NoneVal)

\* ------------------------------------------------ should_refresh_after_deadline
should_refresh_after_deadline(cur, prev, t) ==
  IF ~Has(cur, "current_deadline") \/ cur["current_deadline"] = NoneVal THEN FALSE
  ELSE IF Has(prev, "last_deadline_refresh") /\ prev["last_deadline_refresh"] = cur["current_deadline"] THEN FALSE
  ELSE LET deadline_pacific == AsLocal(FromIsoFormat(cur["current_deadline"]))
           trigger_time == PlusHours(deadline_pacific, GraceHours)
       IN AwareGE(now_local(t), trigger_time)

\* --------------------------------------------------------------- detect_changes
\* detect_changes with any difference of the finished count taken as a trigger.
detect_changes_anyDifference(cur, prev, t) ==
  LET c1 == IF Has(cur, "finished_gameweeks") /\ Has(prev, "finished_gameweeks")
            THEN cur["finished_gameweeks"] # prev["finished_gameweeks"]
            ELSE FALSE
      c2 == IF should_refresh_after_deadline(cur, prev, t) THEN TRUE ELSE c1
  IN c2

\* detect_changes without the finished-count trigger.
detect_changes_deadlineOnly(cur, prev, t) == should_refresh_after_deadline(cur, prev, t)

\* detect_changes, lines 220-243.
detect_changes(cur, prev, t) ==
  LET c1 == IF Has(cur, "finished_gameweeks") /\ Has(prev, "finished_gameweeks")
            THEN cur["finished_gameweeks"] > prev["finished_gameweeks"]
            ELSE FALSE
      c2 == IF should_refresh_after_deadline(cur, prev, t) THEN TRUE ELSE c1
  IN c2

\* ----------------------------------------------------------- save_current_state
\* The state file: whether it exists, what json.load makes of it ("object",
\* "not_object" for valid JSON of another type, "invalid_json"), whether it
\* can be written, and the metrics of an object.
NoFile == [exists |-> FALSE, shape |-> "object", writable |-> TRUE, metrics |-> EmptyDict]

\* The file after json.dump of a state with the given metrics.
WrittenFile(metrics) == [exists |-> TRUE, shape |-> "object", writable |-> TRUE, metrics |-> metrics]

\* save_current_state that never records the consumed deadline.
save_current_state_noMarker(metrics, refresh_triggered) ==
  IF state_file.writable THEN WrittenFile(metrics) ELSE state_file

\* save_current_state that writes only after a refresh.
save_current_state_onlyOnRefresh(metrics, refresh_triggered) ==
  IF refresh_triggered /\ state_file.writable
  THEN WrittenFile(IF Has(metrics, "current_deadline")
                   THEN DictSet(metrics, "last_deadline_refresh", metrics["current_deadline"])
                   ELSE metrics)
  ELSE state_file

\* save_current_state, lines 201-218: the content of the state file after the
\* call.  A failed open or write is caught (lines 216-218) and leaves the file
\* as it was.
save_current_state(metrics, refresh_triggered) ==
  IF state_file.writable
  THEN WrittenFile(IF refresh_triggered /\ Has(metrics, "current_deadline")
                   THEN DictSet(metrics, "last_deadline_refresh", metrics["current_deadline"])
                   ELSE metrics)
  ELSE state_file

\* load_previous_state, lines 187-199: a missing file and a file json.load
\* rejects give {}; anything json.load accepts is returned as it is, a dict
\* or not.
load_previous_state ==
  IF ~state_file.exists \/ state_file.shape = "invalid_json" THEN [is_dict |-> TRUE, metrics |-> EmptyDict]
  ELSE IF state_file.shape = "not_object" THEN [is_dict |-> FALSE, metrics |-> EmptyDict]
  ELSE [is_dict |-> TRUE, metrics |-> state_file.metrics]

\* load_previous_state().get('metrics', {}), line 797, of a dict.
load_previous_metrics == load_previous_state.metrics


\* ------------------------------------------------------------------ upserts
\* Records of a batch that end up synced.  A field-replace succeeds when the
\* addressed row exists and the store accepts the request; otherwise a create
\* is attempted.  patchAcc / postAcc: the requests the store accepts.
Synced(rows, recs, patchAcc, postAcc) ==
  {k \in recs : IF supabase_request("PATCH", k \in rows /\ k \in patchAcc)
                THEN TRUE
                ELSE supabase_request("POST", k \in postAcc)}

\* A batch that succeeds only when every record was synced.
upsert_data_all(rows, recs, patchAcc, postAcc) == Synced(rows, recs, patchAcc, postAcc) = recs

\* upsert_data's return value: success_count > 0.
upsert_data(rows, recs, patchAcc, postAcc) == Cardinality(Synced(rows, recs, patchAcc, postAcc)) > 0

\* Row written for event g of a bootstrap document.
EventRow(doc, g) == [finished |-> g <= doc.finished, is_current |-> g = doc.current, deadline_time |-> DeadlineOf(g)]

NoDoc == [ok |-> FALSE, current |-> 0, finished |-> 0]

NoCore == [teams |-> FALSE, players |-> FALSE]

\* The last picks sync: whose and for which gameweek, the pick list fetched,
\* whether the store took every write (accepted), whether the call was
\* recorded at all (attempted), whether it sent the DELETE, the players it
\* sent a POST for, and what it returned.  valid: the picks were fetched and
\* the user was found.
NoPicks ==
  [valid |-> FALSE, user |-> 0, gw |-> 0, picks |-> {}, accepted |-> FALSE,
   attempted |-> FALSE, deleted |-> FALSE, posted |-> {}, result |-> FALSE]

NoStats == [valid |-> FALSE, gw |-> 0, minutes |-> EmptyDict, accepted |-> FALSE]

NoCycle == [outcome |-> "none", step |-> "none", metrics |-> EmptyDict, deadline_fired |-> FALSE]

\* Sequence listing a set of integers in increasing order.
RECURSIVE SeqOf(_)
SeqOf(S) == IF S = {} THEN <<>> ELSE LET m == CHOOSE x \in S : \A y \in S : x <= y IN <<m>> \o SeqOf(S \ {m})

\* --------------------------------------------------- a table with its rows
\* Keys and record contents of the table that upserts are studied on.  A
\* table maps each key to the bag of the contents of the rows with that key.
Keys == 1..MaxKeys

Vals == 0..MaxVal

NoRows == [v \in Vals |-> 0]

EmptyTable == [k \in Keys |-> NoRows]

RECURSIVE SumTo(_, _)
SumTo(b, n) == IF n < 0 THEN 0 ELSE b[n] + SumTo(b, n - 1)

\* Number of rows with key k.
Count(T, k) == SumTo(T[k], MaxVal)

RowKeys(T) == {k \in Keys : Count(T, k) > 0}

\* Every request of a batch gets through: the field-replace of an
\* existing row, the create of a missing one.
AllAccepted(T, data, patchAcc, postAcc) ==
  \A k \in DOMAIN data : IF Count(T, k) > 0 THEN k \in patchAcc ELSE k \in postAcc

\* upsert_data, lines 277-300, and the loop of lines 463-477, on the rows:
\* a field-replace that gets through rewrites every row with the record's
\* key; when it does not (no such row, or the request failed) a create is
\* sent, and a create the store accepts adds a row.  The keys of the result
\* are those of T together with Synced(RowKeys(T), DOMAIN data, ...).
upsert_rows(T, data, patchAcc, postAcc) ==
  [k \in Keys |->
     IF k \notin DOMAIN data THEN T[k]
     ELSE IF supabase_request("PATCH", Count(T, k) > 0 /\ k \in patchAcc)
          THEN [v \in Vals |-> IF v = data[k] THEN Count(T, k) ELSE 0]
          ELSE IF supabase_request("POST", k \in postAcc)
               THEN [T[k] EXCEPT ![data[k]] = @ + 1]
               ELSE T[k]]

\* Keys of a batch up to the first one for which both requests failed.
UpToFirstFailure(T, data, patchAcc, postAcc) ==
  {k \in DOMAIN data :
     \A j \in DOMAIN data :
       j < k => (supabase_request("PATCH", Count(T, j) > 0 /\ j \in patchAcc) \/ supabase_request("POST", j \in postAcc))}

\* An upsert loop that gives up at the first record it could neither
\* field-replace nor create.
upsert_log_stopAtFailure(T, data, patchAcc, postAcc) ==
  LET tried == UpToFirstFailure(T, data, patchAcc, postAcc)
      patch_ok(k) == supabase_request("PATCH", Count(T, k) > 0 /\ k \in patchAcc)
  IN [patched |-> tried,
      posted |-> {k \in tried : ~patch_ok(k)},
      synced |-> {k \in tried : IF patch_ok(k) THEN TRUE ELSE supabase_request("POST", k \in postAcc)}]

\* An upsert loop with no create.
upsert_log_noFallback(T, data, patchAcc, postAcc) ==
  LET patch_ok(k) == supabase_request("PATCH", Count(T, k) > 0 /\ k \in patchAcc)
  IN [patched |-> DOMAIN data,
      posted |-> {},
      synced |-> {k \in DOMAIN data : patch_ok(k)}]

\* upsert_data, lines 281-290, and the stats loop, lines 466-477: the keys
\* for which a PATCH was sent, those for which a POST was sent, and those
\* counted in success_count.
upsert_log(T, data, patchAcc, postAcc) ==
  LET patch_ok(k) == supabase_request("PATCH", Count(T, k) > 0 /\ k \in patchAcc)
  IN [patched |-> DOMAIN data,
      posted |-> {k \in DOMAIN data : ~patch_ok(k)},
      synced |-> {k \in DOMAIN data : IF patch_ok(k) THEN TRUE ELSE supabase_request("POST", k \in postAcc)}]

\* sync_single_user_entry, lines 532-570, for manager m whose summary gives
\* the row content v: the table after the call, the requests sent to change
\* it and the return value.  found: the lookup of line 541 came back with
\* the manager's row.
sync_single_user_entry(T, m, v, fplOk, found, patchAcc) ==
  IF ~fplOk \/ ~found
  THEN [table |-> T, patched |-> {}, posted |-> {}, synced |-> {}, result |-> FALSE]
  ELSE IF supabase_request("PATCH", Count(T, m) > 0 /\ patchAcc)
       THEN [table |-> [T EXCEPT ![m] = [x \in Vals |-> IF x = v THEN Count(T, m) ELSE 0]],
             patched |-> {m}, posted |-> {}, synced |-> {m}, result |-> TRUE]
       ELSE [table |-> T, patched |-> {m}, posted |-> {}, synced |-> {}, result |-> FALSE]

\* The last batch upserted: the operation, the records, the rows there were
\* before, what the store answered (patch_ok: the field-replaces that got
\* through; post_acc: the creates it accepts), what the loop sent and
\* counted, and the return value.
NoUpsert ==
  [valid |-> FALSE, op |-> "none", data |-> EmptyDict, accepted |-> FALSE, fetched |-> FALSE,
   before |-> {}, patch_ok |-> {}, post_acc |-> {},
   patched |-> {}, posted |-> {}, synced |-> {}, result |-> FALSE]

\* ------------------------------------------------------------ the two clients
\* What the remote end does with a request: a 2xx reply with a JSON body, a
\* 2xx reply with no body, a 2xx reply whose body is not JSON, a non-2xx
\* reply, a non-2xx reply whose text names the column
\* clearances_blocks_interceptions, no reply at all.
Replies == {"ok", "ok_empty", "bad_body", "http_error", "schema_error", "transport_error"}

Methods == SupportedMethods \cup {"DELETE"}

ExceptionClasses == {"ValueError", "ConnectionError", "HTTPError", "JSONDecodeError"}

\* The exception the try block raises (lines 102-110 and 126-142), "none"
\* when it runs through.  Line 139 calls response.json() only on a body.
raised_in_try(method, reply) ==
  IF method \notin SupportedMethods THEN "ValueError"
  ELSE IF reply = "transport_error" THEN "ConnectionError"
  ELSE IF reply \in {"http_error", "schema_error"} THEN "HTTPError"
  ELSE IF reply = "bad_body" THEN "JSONDecodeError"
  ELSE "none"

\* A handler for HTTP errors only.
Caught_httpOnly(exc) == exc = "HTTPError"

\* "except Exception" (lines 112 and 144).
Caught(exc) == exc \in ExceptionClasses

\* hasattr(e, 'response') and e.response is not None (lines 146, 154).
has_response(exc) == exc = "HTTPError"

\* fetch_fpl_data, lines 98-114: what the caller gets ("response", "none"
\* for None, "raised" for an exception) and the error entries logged.
fetch_fpl_data(reply) ==
  LET exc == raised_in_try("GET", IF reply = "ok_empty" THEN "bad_body" ELSE reply)
  IN IF exc = "none" THEN [result |-> "response", log_entries |-> 0]
     ELSE IF Caught(exc) THEN [result |-> "none", log_entries |-> 1]
     ELSE [result |-> "raised", log_entries |-> 0]

\* supabase_request, lines 116-156: what the caller gets, the error entries
\* logged and the flag _schema_error_logged after the call.
supabase_request_full(method, reply, logged) ==
  LET exc == raised_in_try(method, reply)
  IN IF exc = "none" THEN [result |-> "response", log_entries |-> 0, logged |-> logged]
     ELSE IF ~Caught(exc) THEN [result |-> "raised", log_entries |-> 0, logged |-> logged]
     ELSE IF has_response(exc) /\ reply = "schema_error" /\ ~logged
          THEN [result |-> "none", log_entries |-> 1, logged |-> TRUE]
          ELSE [result |-> "none", log_entries |-> IF has_response(exc) THEN 2 ELSE 1, logged |-> logged]

\* The last request made: its number in the life of the process, who made
\* it, what came back and what was logged.
\* The query of a read of the players table by the read API: the price
\* bounds and team asked for (NoneVal: not given), the filters get_players
\* built and the parameters execute_query put in the URL.
NoQuery == [team_id |-> NoneVal, min_price |-> NoneVal, max_price |-> NoneVal, filters |-> EmptyDict, params |-> EmptyDict]

NoRequest ==
  [seq |-> 0, client |-> "none", method |-> "none", reply |-> "none", result |-> "none",
   log_entries |-> 0, logged_before |-> FALSE, query |-> NoQuery]

\* ------------------------------------------------------------------- main()
\* The command-line flags of main (lines 899-902).
Flags == {"test", "test_team_stats", "refresh", "once"}

OneShots == {"test_monitoring", "test_team_gw_stats", "perform_refresh", "check_once"}

\* main, lines 909-918: the if / elif chain; the operations that run.
operations_run(args) ==
  IF "test" \in args THEN {"test_monitoring"}
  ELSE IF "test_team_stats" \in args THEN {"test_team_gw_stats"}
  ELSE IF "refresh" \in args THEN {"perform_refresh"}
  ELSE IF "once" \in args THEN {"check_once"}
  ELSE {"start_service"}

\* How an operation can end.  perform_refresh and test_team_gw_stats catch
\* every Exception themselves; test_monitoring and check_once call
\* previous_state.get outside any handler (lines 797, 858); start_service
\* catches KeyboardInterrupt and Exception and returns None.
OutcomesOf(op) ==
  IF op = "start_service" THEN {"returned"}
  ELSE IF op \in {"test_monitoring", "check_once"} THEN {"True", "False", "Exception", "KeyboardInterrupt"}
  ELSE {"True", "False", "KeyboardInterrupt"}

\* A main that leaves the status at zero whatever the operation reported.
main_exit_status_zero(op, outcome) == 0

\* main, lines 909-927: the exit status of the process.
main_exit_status(op, outcome) ==
  IF outcome = "KeyboardInterrupt" THEN 0
  ELSE IF outcome = "Exception" THEN 1
  ELSE IF op = "start_service" THEN 0
  ELSE IF outcome = "True" THEN 0 ELSE 1

NoMain == [seq |-> 0, args |-> {}, ran |-> {}, outcome |-> "none", exit_status |-> 0]

\* ----------------------------------------------------------------- Init
\* The store is empty, upstream has no current event and nothing has failed.
\* The registered managers and the players that take the field differ
\* between the scenarios studied.
InitBesidesTable ==
  /\ fplCurrent = 0
  /\ fplFinished = 0
  /\ teams = {}
  /\ players = {}
  /\ gameweeks = EmptyDict
  /\ fixtures = {}
  /\ player_gw_stats = {}
  /\ user_player_ownership = {}
  /\ team_gw_stats = FALSE
  /\ exit_status = 0
  /\ changes_detected = FALSE
  /\ deadline_fired = FALSE
  /\ bootstrap_data = NoDoc
  /\ core_success = NoCore
  /\ gameweeks_to_refresh = <<>>
  /\ gw_queue = <<>>
  /\ manager_queue = <<>>
  /\ picks_gw = 0
  /\ last_picks = NoPicks
  /\ last_stats = NoStats
  /\ last_cycle = NoCycle
  /\ consumed = {}
  /\ faults = 0
  /\ last_upsert = NoUpsert
  /\ schema_error_logged = FALSE
  /\ last_request = NoRequest
  /\ last_main = NoMain

InitRest ==
  /\ InitBesidesTable
  /\ table = EmptyTable

\* No process has run yet and there is no state file.
InitCommon ==
  /\ InitRest
  /\ now = 0
  /\ state_file = NoFile
  /\ mode = "none"
  /\ pc = "exited"
  /\ current_metrics = EmptyDict

\* The check cycle is studied with no manager registered and before any
\* player has taken the field.
Init ==
  /\ InitCommon
  /\ countAggregated \in BOOLEAN
  /\ user_entries = {}
  /\ fplPlaying = {}

\* ------------------------------------------------------------ environment
\* Upstream moves on: the next event becomes current, or the current event
\* is marked finished.  The service sees upstream only through its fetches,
\* so a change during a check is taken to land before or after that check.
UpstreamAdvance ==
  /\ pc \in {"exited", "sleeping"}
  /\ \/ /\ fplCurrent < MaxGW
        /\ fplFinished = fplCurrent
        /\ fplCurrent' = fplCurrent + 1
        /\ UNCHANGED fplFinished
     \/ /\ fplFinished < fplCurrent
        /\ fplFinished' = fplCurrent
        /\ UNCHANGED fplCurrent
  /\ UNCHANGED <<now, fplPlaying, countAggregated, unitVars, storeVars, state_file, mode, pc, exit_status, cycleVars, refreshVars, histVars, faults>>

\* Time passes while no process is running.
Tick ==
  /\ pc = "exited"
  /\ now < MaxTime
  /\ now' = now + 1
  /\ UNCHANGED <<fplCurrent, fplFinished, fplPlaying, countAggregated, unitVars, storeVars, state_file, mode, pc, exit_status, cycleVars, refreshVars, histVars, faults>>

\* ------------------------------------------------------------------- main
\* main(): the run mode chosen on the command line.
MainMode(m) ==
  /\ pc = "exited"
  /\ mode' = m
  /\ pc' = IF m = "refresh" THEN "test_connections" ELSE "sampling"
  /\ exit_status' = 0
  /\ last_cycle' = NoCycle
  /\ UNCHANGED <<envVars, unitVars, storeVars, state_file, cycleVars, refreshVars, consumed, faults>>

Main == \E m \in {"service", "once", "refresh"} : MainMode(m)

\* The steps of perform_refresh.
RefreshPcs ==
  {"test_connections", "fetch_bootstrap", "sync_teams", "sync_players", "sync_gameweeks",
   "fetch_fixtures", "sync_fixtures", "get_gameweeks_to_refresh", "sync_player_gw_stats",
   "sync_user_entries", "sync_user_picks_for_all_managers", "sync_user_picks_for_gameweek",
   "sync_team_gw_stats"}

\* The state of the cycle a process is in: sampling, deciding, reconciling
\* (any step of perform_refresh), persisting or sleeping.
CycleState(p) == IF p \in RefreshPcs THEN "reconciling" ELSE p

\* A stop signal that the loop honours only while it sleeps.
KeyboardInterrupt_betweenCycles ==
  /\ pc # "exited"
  /\ mode = "service" => pc = "sleeping"
  /\ pc' = "exited"
  /\ mode' = "none"
  /\ exit_status' = 0
  /\ current_metrics' = EmptyDict
  /\ changes_detected' = FALSE
  /\ deadline_fired' = FALSE
  /\ bootstrap_data' = NoDoc
  /\ core_success' = NoCore
  /\ gameweeks_to_refresh' = <<>>
  /\ gw_queue' = <<>>
  /\ manager_queue' = <<>>
  /\ picks_gw' = 0
  /\ last_picks' = NoPicks
  /\ last_stats' = NoStats
  /\ last_cycle' = IF mode = "service" /\ CycleState(pc) = "reconciling"
                   THEN [outcome |-> "refresh_abandoned", step |-> "reconciling", metrics |-> EmptyDict, deadline_fired |-> FALSE]
                   ELSE NoCycle
  /\ UNCHANGED <<envVars, unitVars, storeVars, state_file, consumed, faults>>

\* KeyboardInterrupt: neither check_once nor perform_refresh (whose handlers
\* are "except Exception") catches it; start_service (line 838) and main
\* (line 923) do, and the process ends with status 0.
KeyboardInterrupt ==
  /\ pc # "exited"
  /\ pc' = "exited"
  /\ mode' = "none"
  /\ exit_status' = 0
  /\ current_metrics' = EmptyDict
  /\ changes_detected' = FALSE
  /\ deadline_fired' = FALSE
  /\ bootstrap_data' = NoDoc
  /\ core_success' = NoCore
  /\ gameweeks_to_refresh' = <<>>
  /\ gw_queue' = <<>>
  /\ manager_queue' = <<>>
  /\ picks_gw' = 0
  /\ last_picks' = NoPicks
  /\ last_stats' = NoStats
  /\ last_cycle' = IF mode = "service" /\ CycleState(pc) = "reconciling"
                   THEN [outcome |-> "refresh_abandoned", step |-> "reconciling", metrics |-> EmptyDict, deadline_fired |-> FALSE]
                   ELSE NoCycle
  /\ UNCHANGED <<envVars, unitVars, storeVars, state_file, consumed, faults>>

\* check_once returned: the loop sleeps, a one-shot run exits.
CheckReturns(result) ==
  /\ current_metrics' = EmptyDict
  /\ changes_detected' = FALSE
  /\ deadline_fired' = FALSE
  /\ IF mode = "service"
     THEN pc' = "sleeping" /\ UNCHANGED <<mode, exit_status>>
     ELSE pc' = "exited" /\ mode' = "none" /\ exit_status' = (IF result THEN 0 ELSE 1)

\* ------------------------------------------------------------- check_once
\* A check that never takes a sample for failed.
SampleFailed_never(m) == FALSE

\* check_once, line 791: "if not current_metrics".
SampleFailed(m) == m = EmptyDict

\* check_once, lines 789-793: sample the metrics; an empty sample ends the check.
Sample ==
  /\ pc = "sampling"
  /\ \E finishedOk \in BOOLEAN, currentOk \in BOOLEAN, first \in (IF CurrentRows = {} THEN {0} ELSE CurrentRows) :
       LET m == get_current_metrics(finishedOk, currentOk, first)
       IN /\ Fails(~finishedOk \/ ~currentOk)
          /\ IF SampleFailed(m)
             THEN /\ CheckReturns(FALSE)
                  /\ last_cycle' = [outcome |-> "sample_failed", step |-> "sampling", metrics |-> EmptyDict, deadline_fired |-> FALSE]
             ELSE /\ current_metrics' = m
                  /\ pc' = "deciding"
                  /\ UNCHANGED <<mode, exit_status, changes_detected, deadline_fired, last_cycle>>
  /\ UNCHANGED <<envVars, unitVars, storeVars, state_file, refreshVars, consumed>>

\* check_once, lines 795-803 and 813: load the previous state and decide.
\* previous_state.get (line 797) raises AttributeError when the loaded value
\* is no dict; nothing in check_once catches it, so it ends the loop at
\* start_service's "except Exception" (lines 840-842, status 0) and a one-shot
\* run at main's (lines 925-927, status 1).
Decide ==
  /\ pc = "deciding"
  /\ IF load_previous_state.is_dict
     THEN /\ changes_detected' = detect_changes(current_metrics, load_previous_metrics, now)
          /\ deadline_fired' = should_refresh_after_deadline(current_metrics, load_previous_metrics, now)
          /\ pc' = IF changes_detected' THEN "test_connections" ELSE "persisting"
          /\ UNCHANGED <<mode, exit_status, current_metrics, histVars>>
     ELSE /\ pc' = "exited"
          /\ mode' = "none"
          /\ exit_status' = (IF mode = "service" THEN 0 ELSE 1)
          /\ current_metrics' = EmptyDict
          /\ changes_detected' = FALSE
          /\ deadline_fired' = FALSE
          /\ last_cycle' = [outcome |-> "service_error", step |-> "deciding", metrics |-> EmptyDict, deadline_fired |-> FALSE]
          /\ UNCHANGED consumed
  /\ UNCHANGED <<envVars, unitVars, storeVars, state_file, refreshVars, faults>>

\* check_once, lines 806-809 and 813-816: persist the state and return True.
Persist ==
  /\ pc = "persisting"
  /\ state_file' = save_current_state(current_metrics, changes_detected)
  /\ last_cycle' = [outcome |-> IF changes_detected THEN "refreshed" ELSE "no_change", step |-> "persisting", metrics |-> current_metrics, deadline_fired |-> deadline_fired]
  /\ consumed' = IF changes_detected /\ deadline_fired THEN consumed \cup {current_metrics["current_deadline"]} ELSE consumed
  /\ CheckReturns(TRUE)
  /\ UNCHANGED <<envVars, unitVars, storeVars, refreshVars, faults>>

\* start_service, line 836: time.sleep(check_interval), then the next check.
Sleep ==
  /\ pc = "sleeping"
  /\ now' = IF now + CheckInterval <= MaxTime THEN now + CheckInterval ELSE now
  /\ pc' = "sampling"
  /\ UNCHANGED <<fplCurrent, fplFinished, fplPlaying, countAggregated, unitVars, storeVars, state_file, mode, exit_status, cycleVars, refreshVars, histVars, faults>>

\* ---------------------------------------------------------- perform_refresh
\* perform_refresh returning to a check_once that persists whatever the result.
RefreshReturns_persistAnyway(result) ==
  /\ bootstrap_data' = NoDoc
  /\ core_success' = NoCore
  /\ gameweeks_to_refresh' = <<>>
  /\ gw_queue' = <<>>
  /\ manager_queue' = <<>>
  /\ picks_gw' = 0
  /\ last_picks' = NoPicks
  /\ last_stats' = NoStats
  /\ IF mode = "refresh"
     THEN /\ pc' = "exited"
          /\ mode' = "none"
          /\ exit_status' = (IF result THEN 0 ELSE 1)
     ELSE /\ pc' = "persisting"
          /\ UNCHANGED <<mode, exit_status>>
  /\ UNCHANGED <<cycleVars, last_cycle, state_file, consumed>>

\* perform_refresh returned: to main (--refresh) or to check_once, which
\* persists after a success and gives up after a failure (lines 806-812).
RefreshReturns(result) ==
  /\ bootstrap_data' = NoDoc
  /\ core_success' = NoCore
  /\ gameweeks_to_refresh' = <<>>
  /\ gw_queue' = <<>>
  /\ manager_queue' = <<>>
  /\ picks_gw' = 0
  /\ last_picks' = NoPicks
  /\ last_stats' = NoStats
  /\ IF mode = "refresh"
     THEN /\ pc' = "exited"
          /\ mode' = "none"
          /\ exit_status' = (IF result THEN 0 ELSE 1)
          /\ UNCHANGED <<cycleVars, last_cycle>>
     ELSE IF result
          THEN /\ pc' = "persisting"
               /\ UNCHANGED <<mode, exit_status, cycleVars, last_cycle>>
          ELSE /\ CheckReturns(FALSE)
               /\ last_cycle' = [outcome |-> "refresh_failed", step |-> pc, metrics |-> current_metrics, deadline_fired |-> deadline_fired]
  /\ UNCHANGED <<state_file, consumed>>

\* A step of perform_refresh that moves on to the step named next.
RefreshGoes(next) ==
  /\ pc' = next
  /\ UNCHANGED <<mode, exit_status, cycleVars, histVars, state_file>>

\* A refresh that goes on whatever the connectivity check found.
TestConnections_ignored ==
  /\ pc = "test_connections"
  /\ \E fplOk \in BOOLEAN, supaOk \in BOOLEAN :
       /\ Fails(~fplOk \/ ~supaOk)
       /\ RefreshGoes("fetch_bootstrap") /\ UNCHANGED refreshVars
  /\ UNCHANGED <<envVars, unitVars, storeVars>>

\* test_connections, lines 685-705 (called at line 713).
TestConnections ==
  /\ pc = "test_connections"
  /\ \E fplOk \in BOOLEAN, supaOk \in BOOLEAN :
       /\ Fails(~fplOk \/ ~supaOk)
       /\ IF fplOk /\ supabase_request("GET", supaOk)
          THEN RefreshGoes("fetch_bootstrap") /\ UNCHANGED refreshVars
          ELSE RefreshReturns(FALSE)
  /\ UNCHANGED <<envVars, unitVars, storeVars>>

\* perform_refresh, lines 716-720.
FetchBootstrap ==
  /\ pc = "fetch_bootstrap"
  /\ \E fplOk \in BOOLEAN :
       /\ Fails(~fplOk)
       /\ IF fplOk
          THEN /\ bootstrap_data' = [ok |-> TRUE, current |-> fplCurrent, finished |-> fplFinished]
               /\ RefreshGoes("sync_teams")
               /\ UNCHANGED <<core_success, gameweeks_to_refresh, gw_queue, manager_queue, picks_gw, last_picks, last_stats>>
          ELSE RefreshReturns(FALSE)
  /\ UNCHANGED <<envVars, unitVars, storeVars>>

\* sync_teams -> upsert_data('teams', ...), line 725.
SyncTeams ==
  /\ pc = "sync_teams"
  /\ \E patchAcc \in SUBSET (TeamIds \cap teams) :
       \E postAcc \in SUBSET (TeamIds \ patchAcc) :
         /\ Fails(patchAcc # TeamIds \cap teams \/ postAcc # TeamIds \ patchAcc)
         /\ teams' = teams \cup Synced(teams, TeamIds, patchAcc, postAcc)
         /\ core_success' = [core_success EXCEPT !.teams = upsert_data(teams, TeamIds, patchAcc, postAcc)]
  /\ RefreshGoes("sync_players")
  /\ UNCHANGED <<envVars, unitVars, players, gameweeks, fixtures, player_gw_stats, user_entries, user_player_ownership, team_gw_stats>>
  /\ UNCHANGED <<bootstrap_data, gameweeks_to_refresh, gw_queue, manager_queue, picks_gw, last_picks, last_stats>>

\* sync_players -> upsert_data('players', ...), line 726.
SyncPlayers ==
  /\ pc = "sync_players"
  /\ \E patchAcc \in SUBSET (PlayerIds \cap players) :
       \E postAcc \in SUBSET (PlayerIds \ patchAcc) :
         /\ Fails(patchAcc # PlayerIds \cap players \/ postAcc # PlayerIds \ patchAcc)
         /\ players' = players \cup Synced(players, PlayerIds, patchAcc, postAcc)
         /\ core_success' = [core_success EXCEPT !.players = upsert_data(players, PlayerIds, patchAcc, postAcc)]
  /\ RefreshGoes("sync_gameweeks")
  /\ UNCHANGED <<envVars, unitVars, teams, gameweeks, fixtures, player_gw_stats, user_entries, user_player_ownership, team_gw_stats>>
  /\ UNCHANGED <<bootstrap_data, gameweeks_to_refresh, gw_queue, manager_queue, picks_gw, last_picks, last_stats>>

\* A core check that is content with any one synced batch.
CoreOk_any(teams_success, players_success, gameweeks_success) == teams_success \/ players_success \/ gameweeks_success

\* perform_refresh, line 729: all([teams_success, players_success, gameweeks_success]).
CoreOk(teams_success, players_success, gameweeks_success) == teams_success /\ players_success /\ gameweeks_success

\* sync_gameweeks -> upsert_data('gameweeks', ...), then the core check,
\* lines 727-731.
SyncGameweeks ==
  /\ pc = "sync_gameweeks"
  /\ \E patchAcc \in SUBSET (GWs \cap DOMAIN gameweeks) :
       \E postAcc \in SUBSET (GWs \ patchAcc) :
         LET synced == Synced(DOMAIN gameweeks, GWs, patchAcc, postAcc)
             gameweeks_success == upsert_data(DOMAIN gameweeks, GWs, patchAcc, postAcc)
         IN /\ Fails(patchAcc # GWs \cap DOMAIN gameweeks \/ postAcc # GWs \ patchAcc)
            /\ gameweeks' = [g \in (DOMAIN gameweeks) \cup synced |->
                               IF g \in synced THEN EventRow(bootstrap_data, g) ELSE gameweeks[g]]
            /\ IF CoreOk(core_success.teams, core_success.players, gameweeks_success)
               THEN RefreshGoes("fetch_fixtures") /\ UNCHANGED refreshVars
               ELSE RefreshReturns(FALSE)
  /\ UNCHANGED <<envVars, unitVars, teams, players, fixtures, player_gw_stats, user_entries, user_player_ownership, team_gw_stats>>

\* A refresh that goes on without the fixtures document.
FetchFixtures_ignored ==
  /\ pc = "fetch_fixtures"
  /\ \E fplOk \in BOOLEAN :
       /\ Fails(~fplOk)
       /\ RefreshGoes("sync_fixtures") /\ UNCHANGED refreshVars
  /\ UNCHANGED <<envVars, unitVars, storeVars>>

\* perform_refresh, lines 734-737.
FetchFixtures ==
  /\ pc = "fetch_fixtures"
  /\ \E fplOk \in BOOLEAN :
       /\ Fails(~fplOk)
       /\ IF fplOk
          THEN RefreshGoes("sync_fixtures") /\ UNCHANGED refreshVars
          ELSE RefreshReturns(FALSE)
  /\ UNCHANGED <<envVars, unitVars, storeVars>>

\* sync_fixtures -> upsert_data('fixtures', ...), lines 739-741.
SyncFixtures ==
  /\ pc = "sync_fixtures"
  /\ \E patchAcc \in SUBSET (FixtureIds \cap fixtures) :
       \E postAcc \in SUBSET (FixtureIds \ patchAcc) :
         /\ Fails(patchAcc # FixtureIds \cap fixtures \/ postAcc # FixtureIds \ patchAcc)
         /\ fixtures' = fixtures \cup Synced(fixtures, FixtureIds, patchAcc, postAcc)
         /\ IF upsert_data(fixtures, FixtureIds, patchAcc, postAcc)
            THEN RefreshGoes("get_gameweeks_to_refresh") /\ UNCHANGED refreshVars
            ELSE RefreshReturns(FALSE)
  /\ UNCHANGED <<envVars, unitVars, teams, players, gameweeks, player_gw_stats, user_entries, user_player_ownership, team_gw_stats>>

\* A window of the current gameweek alone.
get_gameweeks_to_refresh_currentOnly(current_gw) ==
  IF current_gw = 0 THEN <<>> ELSE <<current_gw>>

\* get_gameweeks_to_refresh, lines 665-683; current_gw: what
\* get_current_gameweek_id returned (0 for None).
get_gameweeks_to_refresh(current_gw) ==
  IF current_gw = 0 THEN <<>>
  ELSE IF current_gw > 1 THEN <<current_gw - 1, current_gw>> ELSE <<current_gw>>

\* perform_refresh, line 745.
GetGameweeksToRefresh ==
  /\ pc = "get_gameweeks_to_refresh"
  /\ \E readOk \in BOOLEAN, first \in (IF CurrentRows = {} THEN {0} ELSE CurrentRows) :
       LET window == get_gameweeks_to_refresh(IF supabase_request("GET", readOk) THEN first ELSE 0)
       IN /\ Fails(~readOk)
          /\ gameweeks_to_refresh' = window
          /\ gw_queue' = window
          /\ RefreshGoes(IF window = <<>> THEN "sync_user_entries" ELSE "sync_player_gw_stats")
  /\ UNCHANGED <<envVars, unitVars, storeVars, bootstrap_data, core_success, manager_queue, picks_gw, last_picks, last_stats>>

\* A live document that lists every stat of an element but its minutes.
player_stats_unfiltered(live_data, gw) == {<<p, gw>> : p \in DOMAIN live_data}

\* sync_player_gw_stats_from_live, lines 422-461: the stat records built from
\* a live document, one for each element with minutes > 0 (missing minutes
\* count as 0).
player_stats(live_data, gw) == {<<p, gw>> : p \in {q \in DOMAIN live_data : live_data[q] > 0}}

\* A stats sync that keeps, for the gameweek synced, only the rows of the
\* live document at hand.
SyncPlayerGwStats_replacing ==
  /\ pc = "sync_player_gw_stats"
  /\ LET gw == Head(gw_queue)
     IN \E fplOk \in BOOLEAN, played \in SUBSET fplPlaying :
          LET live_data == [p \in PlayerIds |-> IF p \in played THEN 1 ELSE 0]
              stats == IF fplOk THEN player_stats(live_data, gw) ELSE {}
          IN \E patchAcc \in SUBSET (stats \cap player_gw_stats) :
               \E postAcc \in SUBSET (stats \ patchAcc) :
                 /\ Fails(~fplOk \/ patchAcc # stats \cap player_gw_stats \/ postAcc # stats \ patchAcc)
                 /\ player_gw_stats' = {r \in player_gw_stats : r[2] # gw} \cup Synced(player_gw_stats, stats, patchAcc, postAcc)
                 /\ last_stats' = IF fplOk
                                  THEN [valid |-> TRUE, gw |-> gw, minutes |-> live_data,
                                        accepted |-> patchAcc = stats \cap player_gw_stats /\ postAcc = stats \ patchAcc]
                                  ELSE NoStats
  /\ gw_queue' = Tail(gw_queue)
  /\ RefreshGoes(IF Tail(gw_queue) = <<>> THEN "sync_user_entries" ELSE "sync_player_gw_stats")
  /\ UNCHANGED <<envVars, unitVars, teams, players, gameweeks, fixtures, user_entries, user_player_ownership, team_gw_stats>>
  /\ UNCHANGED <<bootstrap_data, core_success, gameweeks_to_refresh, manager_queue, picks_gw, last_picks>>

\* A refresh that gives up when the live document of a gameweek cannot be
\* fetched.
SyncPlayerGwStats_failFast ==
  /\ pc = "sync_player_gw_stats"
  /\ \E fplOk \in BOOLEAN :
       /\ Fails(~fplOk)
       /\ IF fplOk
          THEN /\ gw_queue' = Tail(gw_queue)
               /\ last_stats' = NoStats
               /\ RefreshGoes(IF Tail(gw_queue) = <<>> THEN "sync_user_entries" ELSE "sync_player_gw_stats")
               /\ UNCHANGED <<bootstrap_data, core_success, gameweeks_to_refresh, manager_queue, picks_gw, last_picks>>
          ELSE RefreshReturns(FALSE)
  /\ UNCHANGED <<envVars, unitVars, storeVars>>

\* One iteration of the loop at lines 748-750:
\* sync_player_gw_stats_from_live(gw), lines 415-490.  played: the players
\* with minutes > 0 in the live document fetched.
SyncPlayerGwStats ==
  /\ pc = "sync_player_gw_stats"
  /\ LET gw == Head(gw_queue)
     IN \E fplOk \in BOOLEAN, played \in SUBSET fplPlaying :
          LET live_data == [p \in PlayerIds |-> IF p \in played THEN 1 ELSE 0]
              stats == IF fplOk THEN player_stats(live_data, gw) ELSE {}
          IN \E patchAcc \in SUBSET (stats \cap player_gw_stats) :
               \E postAcc \in SUBSET (stats \ patchAcc) :
                 /\ Fails(~fplOk \/ patchAcc # stats \cap player_gw_stats \/ postAcc # stats \ patchAcc)
                 /\ player_gw_stats' = player_gw_stats \cup Synced(player_gw_stats, stats, patchAcc, postAcc)
                 /\ last_stats' = IF fplOk
                                  THEN [valid |-> TRUE, gw |-> gw, minutes |-> live_data,
                                        accepted |-> patchAcc = stats \cap player_gw_stats /\ postAcc = stats \ patchAcc]
                                  ELSE NoStats
  /\ gw_queue' = Tail(gw_queue)
  /\ RefreshGoes(IF Tail(gw_queue) = <<>> THEN "sync_user_entries" ELSE "sync_player_gw_stats")
  /\ UNCHANGED <<envVars, unitVars, teams, players, gameweeks, fixtures, user_entries, user_player_ownership, team_gw_stats>>
  /\ UNCHANGED <<bootstrap_data, core_success, gameweeks_to_refresh, manager_queue, picks_gw, last_picks>>

\* sync_user_entries, lines 509-570 (called at line 757): each registered
\* manager's row is field-replaced; the result is only logged.
\* A refresh that syncs the player stats once more after the user entries.
SyncUserEntries_thenStats ==
  /\ pc = "sync_user_entries"
  /\ gw_queue' = gameweeks_to_refresh
  /\ RefreshGoes(IF gameweeks_to_refresh = <<>> THEN "sync_team_gw_stats" ELSE "sync_player_gw_stats")
  /\ UNCHANGED <<envVars, unitVars, storeVars, bootstrap_data, core_success, gameweeks_to_refresh, manager_queue, picks_gw, last_picks, last_stats, faults>>

\* user_entries_success (line 757) is False when no registered manager's row
\* could be refreshed; lines 769-770 log it.
SyncUserEntries ==
  /\ pc = "sync_user_entries"
  /\ \E user_entries_success \in BOOLEAN : Fails(user_entries # {} /\ ~user_entries_success)
  /\ gw_queue' = gameweeks_to_refresh
  /\ RefreshGoes(IF gameweeks_to_refresh = <<>> THEN "sync_team_gw_stats" ELSE "sync_user_picks_for_all_managers")
  /\ UNCHANGED <<envVars, unitVars, storeVars, bootstrap_data, core_success, gameweeks_to_refresh, manager_queue, picks_gw, last_picks, last_stats>>

\* One iteration of the loop at lines 762-764: the head of
\* sync_user_picks_for_all_managers, lines 615-621.
SyncUserPicksForAllManagers ==
  /\ pc = "sync_user_picks_for_all_managers"
  /\ \E readOk \in BOOLEAN :
       LET manager_ids == IF supabase_request("GET", readOk) THEN SeqOf(user_entries) ELSE <<>>
       IN /\ Fails(~readOk)
          /\ manager_queue' = manager_ids
          /\ picks_gw' = IF manager_ids = <<>> THEN 0 ELSE Head(gw_queue)
          /\ RefreshGoes(IF manager_ids # <<>> THEN "sync_user_picks_for_gameweek"
                         ELSE IF Tail(gw_queue) = <<>> THEN "sync_team_gw_stats"
                         ELSE "sync_user_picks_for_all_managers")
  /\ gw_queue' = Tail(gw_queue)
  /\ last_picks' = NoPicks
  /\ last_stats' = NoStats
  /\ UNCHANGED <<envVars, unitVars, storeVars, bootstrap_data, core_success, gameweeks_to_refresh>>

\* Ownership rows of one user and gameweek.
OwnedBy(rows, user, gw) == {r \in rows : r[1] = user /\ r[3] = gw}

\* sync_user_picks_for_gameweek, lines 572-613: the ownership rows after the
\* call.  picks: the fetched pick list; deleteAcc / postAcc: what the store
\* would accept.
sync_user_picks_for_gameweek(rows, user, gw, picks, deleteAcc, postAcc) ==
  LET cleared == IF supabase_request("DELETE", deleteAcc) THEN rows \ OwnedBy(rows, user, gw) ELSE rows
  IN cleared \cup {<<user, p, gw>> : p \in {q \in picks : supabase_request("POST", q \in postAcc)}}

\* A picks sync that clears the rows of the (user, gameweek) before it looks
\* at what it fetched.
sync_user_picks_rows_clearFirst(rows, fetched, found, user, gw, picks, deleteAcc, postAcc) ==
  IF fetched /\ found
  THEN sync_user_picks_for_gameweek(rows, user, gw, picks, deleteAcc, postAcc)
  ELSE rows \ OwnedBy(rows, user, gw)

\* sync_user_picks_for_gameweek, lines 575-585 before the writes: without a
\* picks document holding a 'picks' list (fetched) or without the manager's
\* user (found) the call returns before any write.
sync_user_picks_rows(rows, fetched, found, user, gw, picks, deleteAcc, postAcc) ==
  IF fetched /\ found
  THEN sync_user_picks_for_gameweek(rows, user, gw, picks, deleteAcc, postAcc)
  ELSE rows

\* sync_user_picks_for_gameweek, lines 572-613: what the call sent and
\* returned (success_count > 0, line 609).
sync_user_picks_log(fetched, found, user, gw, picks, deleteAcc, postAcc) ==
  IF fetched /\ found
  THEN [valid |-> TRUE, user |-> user, gw |-> gw, picks |-> picks, accepted |-> deleteAcc /\ postAcc = picks,
        attempted |-> TRUE, deleted |-> TRUE, posted |-> picks,
        result |-> \E q \in picks : supabase_request("POST", q \in postAcc)]
  ELSE [valid |-> FALSE, user |-> user, gw |-> gw, picks |-> {}, accepted |-> FALSE,
        attempted |-> TRUE, deleted |-> FALSE, posted |-> {}, result |-> FALSE]

\* One iteration of the loop at lines 624-626.  The internal user of
\* manager m has the same number as m.
SyncUserPicksForGameweek ==
  /\ pc = "sync_user_picks_for_gameweek"
  /\ LET manager_id == Head(manager_queue)
     IN \E fplOk \in BOOLEAN, userOk \in BOOLEAN, picks \in SUBSET PlayerIds :
          IF fplOk /\ supabase_request("GET", userOk)
          THEN \E deleteAcc \in BOOLEAN, postAcc \in SUBSET picks :
                 /\ Fails(~deleteAcc \/ postAcc # picks)
                 /\ user_player_ownership' = sync_user_picks_for_gameweek(user_player_ownership, manager_id, picks_gw, picks, deleteAcc, postAcc)
                 /\ last_picks' = sync_user_picks_log(TRUE, TRUE, manager_id, picks_gw, picks, deleteAcc, postAcc)
          ELSE /\ Fails(TRUE)
               /\ UNCHANGED user_player_ownership
               /\ last_picks' = NoPicks
  /\ manager_queue' = Tail(manager_queue)
  /\ picks_gw' = IF Tail(manager_queue) = <<>> THEN 0 ELSE picks_gw
  /\ RefreshGoes(IF Tail(manager_queue) # <<>> THEN "sync_user_picks_for_gameweek"
                 ELSE IF gw_queue = <<>> THEN "sync_team_gw_stats"
                 ELSE "sync_user_picks_for_all_managers")
  /\ UNCHANGED <<envVars, unitVars, teams, players, gameweeks, fixtures, player_gw_stats, user_entries, team_gw_stats>>
  /\ UNCHANGED <<bootstrap_data, core_success, gameweeks_to_refresh, gw_queue, last_stats>>

\* A refresh that reports the outcome of the aggregation call.
refresh_result_teamStats(team_stats_success) == team_stats_success

\* perform_refresh, lines 774-779: a failed aggregation call is logged and
\* the refresh still returns True.
refresh_result(team_stats_success) == TRUE

\* sync_team_gw_stats, lines 638-652, and the return at line 779.
SyncTeamGwStats ==
  /\ pc = "sync_team_gw_stats"
  /\ \E rpcAcc \in BOOLEAN :
       /\ Fails(~rpcAcc)
       /\ team_gw_stats' = IF supabase_request("POST", rpcAcc) THEN TRUE ELSE team_gw_stats
       /\ RefreshReturns(refresh_result(supabase_request("POST", rpcAcc)))
  /\ UNCHANGED <<envVars, unitVars, teams, players, gameweeks, fixtures, player_gw_stats, user_entries, user_player_ownership>>

\* -------------------------------------------------------------- behaviours
Environment == UpstreamAdvance \/ Tick \/ KeyboardInterrupt

CheckOnce == Sample \/ Decide \/ Persist

RefreshCore ==
  \/ TestConnections
  \/ FetchBootstrap
  \/ SyncTeams
  \/ SyncPlayers
  \/ SyncGameweeks
  \/ FetchFixtures
  \/ SyncFixtures
  \/ GetGameweeksToRefresh
  \/ SyncPlayerGwStats
  \/ SyncUserEntries
  \/ SyncUserPicksForAllManagers
  \/ SyncTeamGwStats

Next == Main \/ CheckOnce \/ RefreshCore \/ Sleep \/ Environment

Spec == Init /\ [][Next]_vars

\* The refresh pipeline on its own: forced refreshes (--refresh) with a
\* manager registered and players taking the field.
InitRefresh ==
  /\ InitCommon
  /\ countAggregated = TRUE
  /\ user_entries = ManagerIds
  /\ fplPlaying = PlayerIds

NextRefresh == MainMode("refresh") \/ RefreshCore \/ SyncUserPicksForGameweek \/ UpstreamAdvance \/ KeyboardInterrupt

SpecRefresh == InitRefresh /\ [][NextRefresh]_vars

\* The change detector on its own: detect_changes applied to every pair of
\* metrics dicts of the bounded sets below, at every hour.
MetricsOf(fc, gw) ==
  DictSet(DictSet(DictSet(EmptyDict, "finished_gameweeks", fc), "current_gameweek", gw),
          "current_deadline", IF gw = 0 THEN NoneVal ELSE DeadlineOf(gw))

CurrentInputs == {MetricsOf(fc, gw) : fc \in 0..MaxGW, gw \in 0..MaxGW}

PreviousInputs ==
  {EmptyDict} \cup CurrentInputs
    \cup {DictSet(m, "last_deadline_refresh", d) : m \in CurrentInputs, d \in {NoneVal} \cup {DeadlineOf(g) : g \in GWs}}

InitDetect ==
  /\ InitRest
  /\ countAggregated = TRUE
  /\ user_entries = {}
  /\ fplPlaying = {}
  /\ now \in 0..MaxTime
  /\ current_metrics \in CurrentInputs
  /\ state_file \in {IF prev = EmptyDict THEN NoFile ELSE WrittenFile(prev) : prev \in PreviousInputs}
  /\ mode = "once"
  /\ pc = "deciding"

SpecDetect == InitDetect /\ [][Decide]_vars

\* ------------------------------------------------------------------ claims
\* A check has sampled and decided and has not yet returned.
Decided == current_metrics # EmptyDict /\ pc # "deciding"

\* C1: once a successful refresh has consumed deadline D, no later check
\* whose current deadline is D fires the deadline trigger again.
C1_FiresOncePerDeadline ==
  (Decided /\ deadline_fired) => current_metrics["current_deadline"] \notin consumed

\* C2: after sync_user_picks_for_gameweek has synced a pick list for a
\* (user, gameweek) with every store write accepted, the ownership rows of
\* that (user, gameweek) are exactly the picked players.
C2_FullReplace ==
  (last_picks.valid /\ last_picks.accepted /\ last_picks.picks # {})
    => {r[2] : r \in OwnedBy(user_player_ownership, last_picks.user, last_picks.gw)} = last_picks.picks

\* C3: for metrics that both carry a finished count, detect_changes returns
\* true exactly when the finished count grew or the deadline trigger holds.
C3_DetectIsOr ==
  (Decided /\ Has(current_metrics, "finished_gameweeks") /\ Has(load_previous_metrics, "finished_gameweeks"))
    => (changes_detected <=> (current_metrics["finished_gameweeks"] > load_previous_metrics["finished_gameweeks"] \/ deadline_fired))

\* C3 witness: the finished count decreased, the deadline trigger is false,
\* and the detector answered "no refresh needed".
C3_Witness ==
  /\ Decided
  /\ Has(load_previous_metrics, "finished_gameweeks")
  /\ current_metrics["finished_gameweeks"] < load_previous_metrics["finished_gameweeks"]
  /\ ~deadline_fired
  /\ ~changes_detected
  /\ pc = "persisting"

\* The previous snapshot has a finished count and the sampled one is greater.
CountGrew ==
  /\ Has(load_previous_metrics, "finished_gameweeks")
  /\ current_metrics["finished_gameweeks"] > load_previous_metrics["finished_gameweeks"]

\* C4: when the sampled finished count m exceeds the snapshot's n the check
\* triggers and runs the refresh, and the snapshot persisted after the
\* successful refresh has finished count m.
C4_CountTriggerRefreshes ==
  /\ []((Decided /\ CountGrew) => (changes_detected /\ pc \in RefreshPcs \cup {"persisting"}))
  /\ [][(pc = "deciding" /\ changes_detected') => pc' = "test_connections"]_vars
  /\ [][(pc = "persisting" /\ CountGrew /\ pc' = "sleeping")
          => (state_file'.exists /\ state_file'.metrics["finished_gameweeks"] = current_metrics["finished_gameweeks"])]_vars
  /\ [](last_cycle.outcome = "refreshed"
          => (state_file.exists /\ state_file.metrics["finished_gameweeks"] = last_cycle.metrics["finished_gameweeks"]))

\* C4 witness: a cycle that the finished count alone triggered has refreshed
\* and persisted the new count.
C4_Witness ==
  /\ pc = "sleeping"
  /\ last_cycle.outcome = "refreshed"
  /\ ~last_cycle.deadline_fired
  /\ state_file.metrics["finished_gameweeks"] = last_cycle.metrics["finished_gameweeks"]
  /\ last_cycle.metrics["finished_gameweeks"] > 0

\* The last check refreshed on the deadline trigger, and the metrics sampled
\* now have the same deadline and finished count.
SameAfterDeadlineRefresh ==
  /\ last_cycle.outcome = "refreshed"
  /\ last_cycle.deadline_fired
  /\ current_metrics["current_deadline"] = last_cycle.metrics["current_deadline"]
  /\ current_metrics["finished_gameweeks"] = last_cycle.metrics["finished_gameweeks"]

\* C5: with deadline D plus one hour elapsed and no last_deadline_refresh in
\* the snapshot the check triggers; the snapshot persisted after the
\* successful refresh has last_deadline_refresh = D; the check that follows
\* with the same deadline and finished count does not trigger.
C5_DeadlineConsumed ==
  /\ []((/\ Decided
         /\ current_metrics["current_deadline"] # NoneVal
         /\ now >= current_metrics["current_deadline"] + GraceHours
         /\ ~Has(load_previous_metrics, "last_deadline_refresh"))
        => (changes_detected /\ deadline_fired))
  /\ [][(pc = "persisting" /\ changes_detected /\ deadline_fired /\ pc' = "sleeping")
          => state_file'.metrics["last_deadline_refresh"] = current_metrics["current_deadline"]]_vars
  /\ []((last_cycle.outcome = "refreshed" /\ last_cycle.deadline_fired)
        => (/\ Has(state_file.metrics, "last_deadline_refresh")
            /\ state_file.metrics["last_deadline_refresh"] = last_cycle.metrics["current_deadline"]))
  /\ []((Decided /\ SameAfterDeadlineRefresh) => ~changes_detected)

\* C5 witness: the check after a deadline-triggered refresh sampled the same
\* deadline and finished count, with the grace hour long over, and did not trigger.
C5_Witness ==
  /\ Decided
  /\ SameAfterDeadlineRefresh
  /\ now >= current_metrics["current_deadline"] + GraceHours
  /\ ~changes_detected
  /\ pc = "persisting"

\* The step is not the process being interrupted.
NotInterrupted == ~(pc' = "exited" /\ exit_status' = 0)

RefreshGaveUp ==
  /\ pc \in RefreshPcs
  /\ mode \in {"service", "once"}
  /\ pc' \notin RefreshPcs \cup {"persisting"}
  /\ NotInterrupted

C8_FailedRefreshRetried ==
  /\ [][pc # "persisting" => state_file' = state_file]_vars
  /\ [][(pc' = "persisting" /\ pc # "persisting") => pc \in {"deciding", "sync_team_gw_stats"}]_vars
  /\ [][RefreshGaveUp => (state_file' = state_file /\ last_cycle'.outcome = "refresh_failed")]_vars
  /\ []((Decided /\ last_cycle.outcome = "refresh_failed" /\ current_metrics = last_cycle.metrics)
        => changes_detected)

\* C8 witness: the check after a failed refresh sampled the same metrics and
\* triggered again.
C8_Witness ==
  /\ pc = "test_connections"
  /\ last_cycle.outcome = "refresh_failed"
  /\ current_metrics = last_cycle.metrics
  /\ changes_detected

\* The check ends on a failed sample.
SampleAborted ==
  /\ pc = "sampling"
  /\ pc' = "sleeping" \/ (pc' = "exited" /\ exit_status' = 1)

\* C9: a failed sample ends the check: the detector and the refresh run only
\* on a non-empty sample, no store row and no snapshot is written, and the
\* loop goes to sleep and from there to the next check.
C9_FailedSampleAborts ==
  /\ []((mode \in {"service", "once"} /\ pc \in RefreshPcs \cup {"deciding", "persisting"})
        => current_metrics # EmptyDict)
  /\ [][SampleAborted
          => (/\ storeVars' = storeVars
              /\ state_file' = state_file
              /\ last_cycle'.outcome = "sample_failed"
              /\ mode = "service" => pc' = "sleeping")]_vars
  /\ [][(pc = "sleeping" /\ pc' # "sleeping" /\ pc' # "exited") => pc' = "sampling"]_vars

\* C9 witness: the loop sleeps after a failed sample, the snapshot of an
\* earlier check still in place.
C9_Witness ==
  /\ pc = "sleeping"
  /\ last_cycle.outcome = "sample_failed"
  /\ state_file.exists

SnapshotKeys == {"finished_gameweeks", "current_gameweek", "current_deadline"}

\* C10: a check that samples and does not trigger runs no refresh, writes no
\* store row, and overwrites the snapshot with the sampled finished count,
\* current period and current deadline.
C10_NoTriggerPersists ==
  /\ []((Decided /\ ~changes_detected) => pc = "persisting")
  /\ [][(pc \in {"deciding", "persisting"}) => storeVars' = storeVars]_vars
  /\ [][(pc = "persisting" /\ ~changes_detected /\ pc' = "sleeping")
          => (state_file'.exists /\ \A k \in SnapshotKeys : state_file'.metrics[k] = current_metrics[k])]_vars
  /\ [](last_cycle.outcome = "no_change"
          => (state_file.exists /\ \A k \in SnapshotKeys : state_file.metrics[k] = last_cycle.metrics[k]))

\* C10 witness: a non-triggering check replaced a snapshot that carried a
\* consumed deadline by the metrics it sampled.
C10_Witness ==
  /\ pc = "sleeping"
  /\ last_cycle.outcome = "no_change"
  /\ state_file.metrics = last_cycle.metrics
  /\ consumed # {}

\* ------------------------------------------------------- upserts on their own
\* upsert_data(table_name, data) on one table: a batch of records with
\* distinct keys, and the store's reply to each request.  The store is free
\* to accept or to reject a create whose key is already there.
UpsertData ==
  /\ \E S \in SUBSET Keys :
       \E data \in [S -> Vals], patchAcc \in SUBSET S :
         \E postAcc \in SUBSET {k \in S \ patchAcc : Count(table, k) < MaxCopies} :
           /\ table' = upsert_rows(table, data, patchAcc, postAcc)
           /\ last_upsert' =
                [valid |-> TRUE, op |-> "upsert_data", data |-> data,
                 accepted |-> AllAccepted(table, data, patchAcc, postAcc), fetched |-> TRUE,
                 before |-> RowKeys(table),
                 patch_ok |-> {k \in S : Count(table, k) > 0 /\ k \in patchAcc},
                 post_acc |-> postAcc,
                 patched |-> upsert_log(table, data, patchAcc, postAcc).patched,
                 posted |-> upsert_log(table, data, patchAcc, postAcc).posted,
                 synced |-> upsert_log(table, data, patchAcc, postAcc).synced,
                 result |-> upsert_data(RowKeys(table), S, patchAcc, postAcc)]
  /\ UNCHANGED <<envVars, storeVars, state_file, mode, pc, exit_status, cycleVars, refreshVars, histVars, faults, requestVars, last_main>>

InitUpsert ==
  /\ InitCommon
  /\ countAggregated = TRUE
  /\ user_entries = {}
  /\ fplPlaying = {}

SpecUpsert == InitUpsert /\ [][UpsertData]_vars

\* The batch upserted last got every request through, and so did the one
\* before it, which held the same records.
AppliedTwice ==
  /\ last_upsert.valid /\ last_upsert.accepted
  /\ last_upsert'.valid /\ last_upsert'.accepted
  /\ last_upsert'.data = last_upsert.data

\* Applying a batch a second time changes no row.
SecondUpsertChangesNothing == [][AppliedTwice => table' = table]_vars

\* C11: upserting the same records twice leaves the rows as upserting them
\* once does, and after an upsert whose requests all got through each record
\* is present exactly once, with the content upserted.
C11_UpsertIdempotent ==
  /\ SecondUpsertChangesNothing
  /\ []((last_upsert.valid /\ last_upsert.accepted)
         => \A k \in DOMAIN last_upsert.data :
              Count(table, k) = 1 /\ table[k][last_upsert.data[k]] = 1)

\* C13: no sequence of upserts leaves two rows with the same key.
C13_NoDuplicates == \A k \in Keys : Count(table, k) <= 1

\* ------------------------------------------------- forced refreshes, stats
\* Forced refreshes with no manager registered, every player able to have
\* minutes in a live document.
InitStats ==
  /\ InitCommon
  /\ countAggregated = TRUE
  /\ user_entries = {}
  /\ fplPlaying = PlayerIds

NextStats == MainMode("refresh") \/ RefreshCore \/ UpstreamAdvance \/ KeyboardInterrupt

SpecStats == InitStats /\ [][NextStats]_vars

\* Players with minutes > 0 in the live document of a stats sync.
WithMinutes(st) == IF st.valid THEN {q \in PlayerIds : st.minutes[q] > 0} ELSE {}

\* C12: a stats sync writes the (player, gameweek) row of a player exactly
\* when the live document gives that player minutes > 0: the rows it adds
\* are rows of such players, and when every request got through each such
\* player has a row.
C12_StatsOnlyForMinutes ==
  /\ [][pc = "sync_player_gw_stats"
          => (player_gw_stats' \ player_gw_stats) \subseteq {<<p, Head(gw_queue)>> : p \in WithMinutes(last_stats')}]_vars
  /\ []((last_stats.valid /\ last_stats.accepted)
         => \A p \in WithMinutes(last_stats) : <<p, last_stats.gw>> \in player_gw_stats)

\* C12 witness: a live document with a player on minutes and a player on
\* none was synced; the first has a row for the gameweek, the second none.
C12_Witness ==
  /\ last_stats.valid /\ last_stats.accepted
  /\ \E p \in PlayerIds, q \in PlayerIds :
       /\ last_stats.minutes[p] > 0 /\ <<p, last_stats.gw>> \in player_gw_stats
       /\ last_stats.minutes[q] = 0 /\ <<q, last_stats.gw>> \notin player_gw_stats

\* C14: no step removes a Team, Player, Period, Fixture or player-stat row.
C14_MirroredRowsStay ==
  [][/\ teams \subseteq teams'
     /\ players \subseteq players'
     /\ DOMAIN gameweeks \subseteq DOMAIN gameweeks'
     /\ fixtures \subseteq fixtures'
     /\ player_gw_stats \subseteq player_gw_stats']_vars

\* C14 witness: the stat row of a player is still there after a sync whose
\* live document gave that player no minutes.
C14_Witness ==
  /\ last_stats.valid
  /\ \E p \in PlayerIds : last_stats.minutes[p] = 0 /\ <<p, last_stats.gw>> \in player_gw_stats
  /\ teams = TeamIds /\ players = PlayerIds /\ DOMAIN gameweeks = GWs /\ fixtures = FixtureIds

\* C15: when the connectivity check at the start of perform_refresh fails,
\* the refresh ends there reporting failure and the store is as it was; the
\* refresh goes on to the bootstrap fetch only after a check that passed.
C15_FailedConnectivityAborts ==
  [][pc = "test_connections"
       => /\ faults' # faults => /\ pc' \notin RefreshPcs \cup {"persisting"}
                                 /\ storeVars' = storeVars
                                 /\ state_file' = state_file
                                 /\ IF mode = "service"
                                    THEN last_cycle'.outcome = "refresh_failed"
                                    ELSE exit_status' = 1
          /\ pc' \in RefreshPcs => faults' = faults /\ pc' = "fetch_bootstrap" /\ storeVars' = storeVars]_vars

\* C15 witness: a check in the loop whose refresh ended at a failed
\* connectivity check; the snapshot was not written and the loop sleeps.
C15_Witness ==
  /\ last_cycle.outcome = "refresh_failed"
  /\ last_cycle.step = "test_connections"
  /\ pc = "sleeping"
  /\ faults = 1
  /\ ~state_file.exists

\* ------------------------------------------------- the clients on their own
\* One call of supabase_request.
SupabaseRequest ==
  /\ last_request.seq < MaxRequests
  /\ \E method \in Methods, reply \in Replies :
       LET out == supabase_request_full(method, reply, schema_error_logged)
       IN /\ last_request' = [seq |-> last_request.seq + 1, client |-> "supabase", method |-> method, reply |-> reply,
                              result |-> out.result, log_entries |-> out.log_entries, logged_before |-> schema_error_logged,
                              query |-> NoQuery]
          /\ schema_error_logged' = out.logged
  /\ UNCHANGED <<envVars, storeVars, state_file, mode, pc, exit_status, cycleVars, refreshVars, histVars, faults, upsertVars, last_main>>

\* One call of fetch_fpl_data.
FetchFplData ==
  /\ last_request.seq < MaxRequests
  /\ \E reply \in Replies :
       LET out == fetch_fpl_data(reply)
       IN last_request' = [seq |-> last_request.seq + 1, client |-> "fpl", method |-> "GET", reply |-> reply,
                           result |-> out.result, log_entries |-> out.log_entries, logged_before |-> schema_error_logged,
                           query |-> NoQuery]
  /\ UNCHANGED <<envVars, storeVars, state_file, mode, pc, exit_status, cycleVars, refreshVars, histVars, faults, upsertVars, schema_error_logged, last_main>>

InitClient == InitCommon /\ countAggregated = TRUE /\ user_entries = {} /\ fplPlaying = {}

NextClient == SupabaseRequest \/ FetchFplData

SpecClient == InitClient /\ [][NextClient]_vars

\* C16: a call of either client hands its caller a response or None, never
\* an exception; after a transport error, a non-2xx reply or a method the
\* store client does not implement it hands back None.
C16_ClientsNeverRaise ==
  last_request.client # "none"
    => /\ last_request.result \in {"response", "none"}
       /\ (\/ last_request.reply \in {"transport_error", "http_error", "schema_error"}
           \/ last_request.method \notin SupportedMethods)
            => last_request.result = "none"

\* C16 witness: the store client was asked for DELETE and returned None.
C16_Witness ==
  /\ last_request.client = "supabase"
  /\ last_request.method = "DELETE"
  /\ last_request.result = "none"

\* C18: of the failures that name the missing column, the first of a process
\* logs one entry and every later one logs none; each returns None.
C18_SchemaErrorLoggedOnce ==
  (last_request.client = "supabase" /\ last_request.method \in SupportedMethods /\ last_request.reply = "schema_error")
    => /\ last_request.result = "none"
       /\ last_request.log_entries = IF last_request.logged_before THEN 0 ELSE 1

\* C17: called by a check on whatever the store holds and whatever becomes
\* of its two reads, get_current_metrics returns the empty dict or a dict
\* with exactly the finished count, the current gameweek and the current
\* deadline; the empty dict when the finished-count read fails; and, when
\* that read came back and no gameweek is flagged current, the finished count
\* with gameweek 0 and deadline None.  So is every sample a check holds.
C17_SampleAllOrNothing ==
  /\ current_metrics = EmptyDict \/ DOMAIN current_metrics = SnapshotKeys
  /\ (pc = "deciding" /\ CurrentRows = {})
       => /\ DOMAIN current_metrics = SnapshotKeys
          /\ current_metrics["current_gameweek"] = 0
          /\ current_metrics["current_deadline"] = NoneVal
  /\ pc = "sampling" =>
     \A finishedOk \in BOOLEAN, currentOk \in BOOLEAN, first \in (IF CurrentRows = {} THEN {0} ELSE CurrentRows) :
       LET m == get_current_metrics(finishedOk, currentOk, first)
       IN /\ m = EmptyDict \/ DOMAIN m = SnapshotKeys
          /\ ~finishedOk => m = EmptyDict
          /\ (finishedOk /\ CurrentRows = {})
               => /\ DOMAIN m = SnapshotKeys
                  /\ m["current_gameweek"] = 0
                  /\ m["current_deadline"] = NoneVal
                  /\ m["finished_gameweeks"] = Len(CountReply(Cardinality(FinishedRows)))

\* C17 witness: a check holds a sample taken while the store had gameweeks,
\* one of them finished, and none flagged current.
C17_Witness ==
  /\ pc = "deciding"
  /\ DOMAIN gameweeks # {}
  /\ FinishedRows # {}
  /\ CurrentRows = {}
  /\ DOMAIN current_metrics = SnapshotKeys
  /\ current_metrics["current_gameweek"] = 0
  /\ current_metrics["current_deadline"] = NoneVal

\* C19 (as claimed): the loop ends at a stop signal only from the sleeping
\* state.
C19_StopsOnlyFromSleeping ==
  [][(mode = "service" /\ KeyboardInterrupt) => pc = "sleeping"]_vars

\* C19 (as the code has it): a stop signal ends the loop at once in whatever
\* state the cycle is: it can arrive in every state of the loop, and the step
\* it causes ends the process with status 0, makes no further write to the
\* store and does not touch the snapshot; a refresh in progress is abandoned
\* with the writes made so far left in place.
C19_StopEndsLoopAtOnce ==
  /\ [](mode = "service" => ENABLED KeyboardInterrupt)
  /\ [][(mode = "service" /\ KeyboardInterrupt)
          => /\ pc' = "exited"
             /\ exit_status' = 0
             /\ storeVars' = storeVars
             /\ state_file' = state_file
             /\ CycleState(pc) = "reconciling" <=> last_cycle'.outcome = "refresh_abandoned"]_vars

\* C19 witness: the loop was stopped in the middle of a refresh in which no
\* request had failed; the process is gone with status 0.
C19_Witness ==
  /\ last_cycle.outcome = "refresh_abandoned"
  /\ pc = "exited"
  /\ exit_status = 0
  /\ faults = 0

\* ------------------------------------------- the loop and a damaged state file
\* Between two checks something other than the service rewrites the state
\* file, with text that is not JSON or with JSON that is not an object, or
\* the file's directory stops or starts being writable.
FileDamaged ==
  /\ pc \in {"exited", "sleeping"}
  /\ \/ \E shape \in {"invalid_json", "not_object"} :
          state_file' = [exists |-> TRUE, shape |-> shape, writable |-> state_file.writable, metrics |-> EmptyDict]
     \/ state_file' = [state_file EXCEPT !.writable = ~@]
  /\ UNCHANGED <<envVars, unitVars, storeVars, mode, pc, exit_status, cycleVars, refreshVars, histVars, faults>>

NextLoop == Next \/ FileDamaged

SpecLoop == Init /\ [][NextLoop]_vars

\* C20: the loop of start_service ends at a stop signal and at nothing else:
\* a check that fails (no sample, a failed refresh, a state file that cannot
\* be read or is malformed, a state file that cannot be written) is followed
\* by the sleep and the next check.
C20_LoopEndsOnlyAtStop ==
  [][(mode = "service" /\ pc' = "exited") => KeyboardInterrupt]_vars

\* C29 (as claimed): the snapshot persisted after a successful refresh that
\* the finished count alone triggered does not record the current deadline
\* as last_deadline_refresh.
C29_OnlyDeadlineRefreshConsumes ==
  (/\ last_cycle.outcome = "refreshed"
   /\ ~last_cycle.deadline_fired
   /\ last_cycle.metrics["current_deadline"] # NoneVal
   /\ state_file.exists)
    => ~(/\ Has(state_file.metrics, "last_deadline_refresh")
         /\ state_file.metrics["last_deadline_refresh"] = last_cycle.metrics["current_deadline"])

\* C30: for a deadline D that is not None and not recorded as
\* last_deadline_refresh, should_refresh_after_deadline is true exactly when
\* the instant now is at or after the instant D plus the grace hour, whatever
\* the Pacific offsets of the two; for a deadline of None it is false.
C30_DeadlinePlusGrace ==
  (pc # "deciding" /\ mode # "none")
    => LET D == current_metrics["current_deadline"]
       IN /\ D = NoneVal => ~deadline_fired
          /\ (D # NoneVal /\ ~(Has(load_previous_metrics, "last_deadline_refresh") /\ load_previous_metrics["last_deadline_refresh"] = D))
               => (deadline_fired <=> now >= D + GraceHours)

\* C30 witness: decided at exactly D + 1h, with the deadline in standard time
\* and now in daylight time; the trigger fired.
C30_Witness ==
  /\ pc # "deciding" /\ mode # "none"
  /\ current_metrics["current_deadline"] # NoneVal
  /\ now = current_metrics["current_deadline"] + GraceHours
  /\ UtcOffset(now) # UtcOffset(current_metrics["current_deadline"])
  /\ deadline_fired

\* C22 (as claimed): the fixtures document is fetched before any Team or
\* Player batch of the refresh has been written.
C22_FixturesFetchedBeforeUpserts ==
  pc = "fetch_fixtures" => (~core_success.teams /\ ~core_success.players)

\* C22 (as the code has it): the bootstrap document is fetched before any
\* upsert and the fixtures document before any Fixture upsert, but after the
\* Team, Player and Period batches: when the fixtures fetch fails the refresh
\* ends there reporting failure, with those three batches written and
\* nothing written after them.
C22_FixturesFetchedAfterCore ==
  /\ [](pc = "fetch_fixtures"
          => /\ core_success.teams /\ core_success.players
             /\ teams # {} /\ players # {} /\ DOMAIN gameweeks # {})
  /\ [][pc' = "sync_teams" => (pc = "fetch_bootstrap" /\ bootstrap_data'.ok /\ storeVars' = storeVars)]_vars
  /\ [][pc' = "sync_fixtures" => (pc = "fetch_fixtures" /\ faults' = faults /\ storeVars' = storeVars)]_vars
  /\ [][(pc = "fetch_fixtures" /\ faults' # faults)
          => /\ pc' \notin RefreshPcs \cup {"persisting"}
             /\ storeVars' = storeVars
             /\ state_file' = state_file
             /\ IF mode = "service"
                THEN last_cycle'.outcome = "refresh_failed"
                ELSE exit_status' = 1]_vars

\* C22 witness: a check of the loop whose refresh ended at the failed
\* fixtures fetch; teams, players and gameweeks are in the store, no fixture is.
C22_Witness ==
  /\ last_cycle.outcome = "refresh_failed"
  /\ last_cycle.step = "fetch_fixtures"
  /\ teams # {} /\ players # {} /\ DOMAIN gameweeks # {}
  /\ fixtures = {}

\* Place of a step in the order Team, Player, Period, Fixture, player
\* stats, user entries, ownership, aggregation.
StepRank(p) ==
  CASE p = "test_connections" -> 0
    [] p = "fetch_bootstrap" -> 1
    [] p = "sync_teams" -> 2
    [] p = "sync_players" -> 3
    [] p = "sync_gameweeks" -> 4
    [] p = "fetch_fixtures" -> 5
    [] p = "sync_fixtures" -> 6
    [] p = "get_gameweeks_to_refresh" -> 7
    [] p = "sync_player_gw_stats" -> 8
    [] p = "sync_user_entries" -> 9
    [] p = "sync_user_picks_for_all_managers" -> 10
    [] p = "sync_user_picks_for_gameweek" -> 10
    [] p = "sync_team_gw_stats" -> 11
    [] OTHER -> 12

\* C23: within a refresh the steps never go back in the order Team, Player,
\* Period, Fixture, player stats, user entries, ownership, aggregation; each
\* table is written only at its own step; and the aggregation call is the
\* last step, made once.
C23_WritesInDependencyOrder ==
  [][/\ (pc \in RefreshPcs /\ pc' \in RefreshPcs) => StepRank(pc) <= StepRank(pc')
     /\ teams' # teams => pc = "sync_teams"
     /\ players' # players => pc = "sync_players"
     /\ gameweeks' # gameweeks => pc = "sync_gameweeks"
     /\ fixtures' # fixtures => pc = "sync_fixtures"
     /\ player_gw_stats' # player_gw_stats => pc = "sync_player_gw_stats"
     /\ user_entries' # user_entries => pc = "sync_user_entries"
     /\ user_player_ownership' # user_player_ownership => pc = "sync_user_picks_for_gameweek"
     /\ team_gw_stats' # team_gw_stats => pc = "sync_team_gw_stats"
     /\ pc = "sync_team_gw_stats" => pc' \notin RefreshPcs]_vars

\* C23 witness: a refresh that wrote every table has made the aggregation
\* call and returned.
C23_Witness ==
  /\ pc = "exited"
  /\ exit_status = 0
  /\ team_gw_stats
  /\ teams # {} /\ players # {} /\ DOMAIN gameweeks # {} /\ fixtures # {}
  /\ player_gw_stats # {} /\ user_player_ownership # {}

\* The windows the current-gameweek read of this state can give.
WindowsOf(rows) ==
  IF rows = {} THEN {<<>>}
  ELSE {IF c > 1 THEN <<c - 1, c>> ELSE <<c>> : c \in rows}

\* The steps of a refresh that come after the window was computed.
WindowPcs ==
  {"sync_player_gw_stats", "sync_user_entries", "sync_user_picks_for_all_managers",
   "sync_user_picks_for_gameweek", "sync_team_gw_stats"}

\* Elements of a sequence.
Range(q) == {q[i] : i \in DOMAIN q}

\* C24 (as claimed): the window of a refresh is <<c-1, c>> for a current
\* gameweek c > 1, <<c>> for c = 1, and empty when no gameweek is current.
C24_WindowFromCurrent ==
  pc \in WindowPcs => gameweeks_to_refresh \in WindowsOf(CurrentRows)

\* C24 (as the code has it): the same, and the window is also empty when the
\* read of the current gameweek fails; live stats and picks are fetched for
\* gameweeks of the window only, at most two, none older than c-1.
C24_WindowFromCurrentRead ==
  /\ [][(pc = "get_gameweeks_to_refresh" /\ pc' \in WindowPcs)
          => /\ faults' = faults => gameweeks_to_refresh' \in WindowsOf(CurrentRows)
             /\ faults' # faults => gameweeks_to_refresh' = <<>>]_vars
  /\ [](pc \in WindowPcs
          => /\ gameweeks_to_refresh \in WindowsOf(CurrentRows) \cup {<<>>}
             /\ Len(gameweeks_to_refresh) <= 2
             /\ Range(gw_queue) \subseteq Range(gameweeks_to_refresh)
             /\ last_stats.valid => last_stats.gw \in Range(gameweeks_to_refresh)
             /\ last_picks.valid => last_picks.gw \in Range(gameweeks_to_refresh)
             /\ picks_gw # 0 => picks_gw \in Range(gameweeks_to_refresh))

\* C24 witness: with gameweek 2 current, the picks of gameweek 1, the older
\* gameweek of the window <<1, 2>>, have been fetched and synced.
C24_Witness ==
  /\ pc \in WindowPcs
  /\ gameweeks_to_refresh = <<1, 2>>
  /\ CurrentRows = {2}
  /\ last_picks.valid
  /\ last_picks.gw = 1

\* ------------------------------------------------------- main on its own
\* One invocation of the program: the flags given, the operations that ran,
\* how the operation ended and the exit status.
MainRun ==
  /\ last_main.seq < MaxRuns
  /\ \E args \in SUBSET Flags :
       \E op \in operations_run(args) :
         \E outcome \in OutcomesOf(op) :
           last_main' = [seq |-> last_main.seq + 1, args |-> args, ran |-> operations_run(args),
                         outcome |-> outcome, exit_status |-> main_exit_status(op, outcome)]
  /\ UNCHANGED <<envVars, storeVars, state_file, mode, pc, exit_status, cycleVars, refreshVars, histVars, faults, upsertVars, requestVars>>

InitMain == InitCommon /\ countAggregated = TRUE /\ user_entries = {} /\ fplPlaying = {}

SpecMain == InitMain /\ [][MainRun]_vars

\* C21: an invocation runs exactly one operation; in a one-shot mode the exit
\* status is nonzero exactly when the operation reported failure (returned
\* False, or raised an error), and zero when it reported success.
C21_ExitStatusReportsFailure ==
  last_main.seq > 0
    => /\ Cardinality(last_main.ran) = 1
       /\ \A op \in last_main.ran \cap OneShots :
            /\ last_main.outcome = "True" => last_main.exit_status = 0
            /\ last_main.outcome \in {"False", "Exception"} => last_main.exit_status # 0
            /\ last_main.exit_status # 0 => last_main.outcome \in {"False", "Exception"}

\* C21 witness: --refresh and --once given together; perform_refresh ran
\* alone, reported failure, and the status is nonzero.
C21_Witness ==
  /\ last_main.args = {"refresh", "once"}
  /\ last_main.ran = {"perform_refresh"}
  /\ last_main.outcome = "False"
  /\ last_main.exit_status = 1

\* ---------------------------------------------------------------------------
\* sync_single_user_entry as a unit: one manager's row refreshed against a
\* user_entries table holding at most one row per registered manager.

SyncSingleUserEntry ==
  /\ \E m \in Keys, v \in Vals, fplOk \in BOOLEAN, getOk \in BOOLEAN, patchAcc \in BOOLEAN, postAcc \in BOOLEAN :
       LET found == supabase_request("GET", getOk) /\ Count(table, m) > 0
           r == sync_single_user_entry(table, m, v, fplOk, found, patchAcc)
       IN /\ table' = r.table
          /\ last_upsert' =
               [valid |-> TRUE, op |-> "sync_single_user_entry", data |-> (m :> v),
                accepted |-> FALSE, fetched |-> fplOk /\ found,
                before |-> RowKeys(table),
                patch_ok |-> IF Count(table, m) > 0 /\ patchAcc THEN {m} ELSE {},
                post_acc |-> IF postAcc THEN {m} ELSE {},
                patched |-> r.patched, posted |-> r.posted, synced |-> r.synced,
                result |-> r.result]
  /\ UNCHANGED <<envVars, storeVars, state_file, mode, pc, exit_status, cycleVars, refreshVars, histVars, faults, requestVars, last_main>>

\* A manager registers: the application the service runs behind creates the
\* manager's user_entries row, which the service only reads and updates.
RegisterManager ==
  /\ \E m \in Keys, v \in Vals :
       /\ Count(table, m) = 0
       /\ table' = [table EXCEPT ![m][v] = 1]
  /\ UNCHANGED <<envVars, storeVars, state_file, mode, pc, exit_status, cycleVars, refreshVars, histVars, faults, requestVars, last_main, last_upsert>>

SpecUserEntry == InitUpsert /\ [][RegisterManager \/ SyncSingleUserEntry]_vars

\* ---------------------------------------------------------------------------
\* One call of upsert_data against each table that holds at most one row per
\* key, with every batch and every pattern of refused requests.

UpsertBatch ==
  /\ ~last_upsert.valid
  /\ UpsertData

InitBatch ==
  /\ InitBesidesTable
  /\ table \in {T \in [Keys -> [Vals -> 0..1]] : \A k \in Keys : Count(T, k) <= 1}
  /\ now = 0
  /\ state_file = NoFile
  /\ mode = "none"
  /\ pc = "exited"
  /\ current_metrics = EmptyDict
  /\ countAggregated = TRUE
  /\ user_entries = {}
  /\ fplPlaying = {}

SpecBatch == InitBatch /\ [][UpsertBatch]_vars

\* C25: in a batch upsert a create is sent for a record exactly when its
\* keyed field-replace failed, the record is counted as synced exactly when
\* one of the two requests succeeded, and a record that had no row before
\* the call has one after it whenever the store accepts the create.
C25_CreateIffReplaceFailed ==
  (last_upsert.valid /\ last_upsert.op = "upsert_data") =>
    \A k \in DOMAIN last_upsert.data :
      /\ k \in last_upsert.patched
      /\ k \in last_upsert.posted <=> k \notin last_upsert.patch_ok
      /\ k \in last_upsert.synced <=>
           (k \in last_upsert.patch_ok \/ (k \in last_upsert.posted /\ k \in last_upsert.post_acc))
      /\ (k \notin last_upsert.before /\ k \in last_upsert.post_acc) => Count(table, k) > 0

C25_Witness ==
  /\ last_upsert.valid /\ last_upsert.op = "upsert_data"
  /\ \E k1, k2 \in DOMAIN last_upsert.data :
       /\ k1 \in last_upsert.patch_ok /\ k1 \notin last_upsert.posted /\ k1 \in last_upsert.synced
       /\ k2 \notin last_upsert.before /\ k2 \in last_upsert.posted /\ k2 \in last_upsert.post_acc
       /\ k2 \in last_upsert.synced /\ Count(table, k2) > 0

\* C26: a record whose field-replace and create both failed does not end the
\* batch: a request is sent for every record of the batch, whatever happened
\* to the records before it.
C26_EveryRecordAttempted ==
  (last_upsert.valid /\ last_upsert.op = "upsert_data") =>
    last_upsert.patched = DOMAIN last_upsert.data

C26_Witness ==
  /\ last_upsert.valid /\ last_upsert.op = "upsert_data"
  /\ \E k1, k2 \in DOMAIN last_upsert.data :
       /\ k1 < k2
       /\ k1 \notin last_upsert.patch_ok /\ k1 \notin last_upsert.post_acc /\ k1 \notin last_upsert.synced
       /\ k2 \in last_upsert.patched /\ k2 \in last_upsert.synced

\* C27: a batch upsert reports success exactly when at least one record was
\* synced, so a batch of zero records reports failure.
C27_SuccessIffOneSynced ==
  (last_upsert.valid /\ last_upsert.op = "upsert_data") =>
    /\ last_upsert.result <=> last_upsert.synced # {}
    /\ DOMAIN last_upsert.data = {} => ~last_upsert.result

C27_Witness ==
  /\ last_upsert.valid /\ last_upsert.op = "upsert_data"
  /\ Cardinality(DOMAIN last_upsert.data) = 2
  /\ Cardinality(last_upsert.synced) = 1
  /\ last_upsert.result

\* C28: refreshing a user entry whose summary was fetched and whose user was
\* found sends a field-replace addressed by entry id and, when that fails, a
\* create; the entry counts as synced if either succeeds.
C28_UserEntryCreateFallback ==
  (last_upsert.valid /\ last_upsert.op = "sync_single_user_entry" /\ last_upsert.fetched) =>
    \A m \in DOMAIN last_upsert.data :
      /\ m \in last_upsert.patched
      /\ m \notin last_upsert.patch_ok => m \in last_upsert.posted
      /\ last_upsert.result <=> (m \in last_upsert.patch_ok \/ m \in last_upsert.post_acc)

\* C31 (as claimed): when the store answers the count-selecting read with a
\* single row holding the count, the finished count of a sample equals the
\* number of gameweeks rows whose finished flag is true.
C31_FinishedCountIsRowCount ==
  (countAggregated /\ pc = "deciding" /\ Has(current_metrics, "finished_gameweeks"))
    => current_metrics["finished_gameweeks"] = Cardinality(FinishedRows)

\* The steps of perform_refresh after the Fixtures batch.
LaterPcs ==
  {"get_gameweeks_to_refresh", "sync_player_gw_stats", "sync_user_entries",
   "sync_user_picks_for_all_managers", "sync_user_picks_for_gameweek", "sync_team_gw_stats"}

\* C32: once the Fixtures batch has been synced, a refresh that is not
\* interrupted goes through every remaining step whatever fails in it: a
\* stats sync is followed by the next gameweek's or by the user entries, the
\* user entries by the picks (or, with an empty window, by the aggregation
\* call), a picks sync by the next manager's, the next gameweek's or the
\* aggregation call, and the aggregation call by the return of success.
C32_LaterFailuresTolerated ==
  [][(pc \in LaterPcs /\ ~KeyboardInterrupt)
       => /\ pc # "sync_team_gw_stats" => (pc' \in LaterPcs /\ StepRank(pc') >= StepRank(pc))
          /\ pc = "sync_player_gw_stats"
               => (/\ gw_queue' = Tail(gw_queue)
                   /\ pc' = IF Tail(gw_queue) = <<>> THEN "sync_user_entries" ELSE "sync_player_gw_stats")
          /\ pc = "sync_user_entries"
               => pc' = IF gameweeks_to_refresh = <<>> THEN "sync_team_gw_stats" ELSE "sync_user_picks_for_all_managers"
          /\ pc = "sync_user_picks_for_gameweek"
               => (/\ manager_queue' = Tail(manager_queue)
                   /\ pc' = IF Tail(manager_queue) # <<>> THEN "sync_user_picks_for_gameweek"
                            ELSE IF gw_queue = <<>> THEN "sync_team_gw_stats"
                            ELSE "sync_user_picks_for_all_managers")
          /\ pc = "sync_team_gw_stats"
               => IF mode = "refresh" THEN pc' = "exited" /\ exit_status' = 0 ELSE pc' = "persisting"]_vars

\* C32 witness: in a refresh the store refused every insert of a manager's
\* picks, so that picks sync reported failure, and the refresh has gone on
\* to the aggregation call.
C32_Witness ==
  /\ pc = "sync_team_gw_stats"
  /\ last_picks.valid /\ ~last_picks.accepted
  /\ last_picks.picks # {}
  /\ OwnedBy(user_player_ownership, last_picks.user, last_picks.gw) = {}
  /\ faults = 1

\* ---------------------------------------------------------------------------
\* The service as scheduled: a process that is running takes its next step
\* (a request returns, time.sleep ends); starting a process, stopping it, the
\* clock between runs and upstream are up to the environment.
SpecService == Init /\ [][Next]_vars /\ WF_vars(CheckOnce \/ RefreshCore \/ Sleep)

\* C33 (as claimed): when upstream has marked finished a gameweek that the
\* store does not show as finished, the completed-period trigger fires in a
\* later check of the running service without the deadline trigger having
\* fired first; here for a store that flags no gameweek current, where the
\* deadline trigger cannot fire, and that answers the count read with one
\* row per finished gameweek.
C33_CountTriggerCatchesResults ==
  (/\ mode = "service" /\ pc = "sleeping"
   /\ ~countAggregated
   /\ state_file.exists
   /\ DOMAIN gameweeks # {} /\ CurrentRows = {}
   /\ fplFinished > Cardinality(FinishedRows))
    ~> (mode # "service" \/ (Decided /\ CountGrew))

\* C34 (as claimed): a check that finds no state file triggers a refresh.
C34_FirstCheckTriggers ==
  (/\ mode \in {"service", "once"}
   /\ Decided /\ pc \in RefreshPcs \cup {"persisting"}
   /\ ~state_file.exists)
    => changes_detected

\* C35 (as claimed): a check that does not trigger keeps the consumed
\* deadline: when the snapshot it loaded has last_deadline_refresh = D, the
\* snapshot it leaves has last_deadline_refresh = D.
C35_NoTriggerKeepsConsumed ==
  [][(/\ pc = "persisting" /\ ~changes_detected
      /\ state_file.exists /\ Has(state_file.metrics, "last_deadline_refresh"))
       => (/\ Has(state_file'.metrics, "last_deadline_refresh")
           /\ state_file'.metrics["last_deadline_refresh"] = state_file.metrics["last_deadline_refresh"])]_vars

\* C36 (as claimed): after a check whose refresh succeeded, the finished count
\* of the persisted snapshot is the finished count a sample of the store
\* would give at that moment.
C36_SnapshotCountAfterRefresh ==
  (pc = "sleeping" /\ last_cycle.outcome = "refreshed" /\ state_file.exists)
    => state_file.metrics["finished_gameweeks"] = Len(CountReply(Cardinality(FinishedRows)))

\* ---------------------------------------------------------------------------
\* The one-shot modes side by side: --test, --test-team-stats, --refresh and
\* --once, run one after another against the same store and state file.

\* A test mode that saves the sample it took.
TestMonitoring_saving ==
  /\ pc = "exited"
  /\ \E finishedOk \in BOOLEAN, currentOk \in BOOLEAN, first \in (IF CurrentRows = {} THEN {0} ELSE CurrentRows) :
       LET m == get_current_metrics(finishedOk, currentOk, first)
           outcome == IF SampleFailed(m) THEN "False" ELSE "True"
       IN /\ Fails(~finishedOk \/ ~currentOk)
          /\ state_file' = IF SampleFailed(m) THEN state_file ELSE save_current_state(m, FALSE)
          /\ last_main' = [seq |-> 1, args |-> {"test"}, ran |-> operations_run({"test"}),
                           outcome |-> outcome, exit_status |-> main_exit_status("test_monitoring", outcome)]
          /\ exit_status' = main_exit_status("test_monitoring", outcome)
  /\ UNCHANGED <<envVars, upsertVars, requestVars, storeVars, mode, pc, cycleVars, refreshVars, histVars>>

\* main with --test: test_monitoring, lines 844-867.  It samples the metrics,
\* loads the previous state and, when there is one, logs what detect_changes
\* makes of the two; previous_state.get (line 858) raises when the loaded
\* value is no dict.
TestMonitoring ==
  /\ pc = "exited"
  /\ \E finishedOk \in BOOLEAN, currentOk \in BOOLEAN, first \in (IF CurrentRows = {} THEN {0} ELSE CurrentRows) :
       LET m == get_current_metrics(finishedOk, currentOk, first)
           outcome == IF SampleFailed(m) THEN "False"
                      ELSE IF ~load_previous_state.is_dict THEN "Exception"
                      ELSE "True"
       IN /\ Fails(~finishedOk \/ ~currentOk)
          /\ last_main' = [seq |-> 1, args |-> {"test"}, ran |-> operations_run({"test"}),
                           outcome |-> outcome, exit_status |-> main_exit_status("test_monitoring", outcome)]
          /\ exit_status' = main_exit_status("test_monitoring", outcome)
  /\ UNCHANGED <<envVars, upsertVars, requestVars, storeVars, state_file, mode, pc, cycleVars, refreshVars, histVars>>

\* main with --test-team-stats: test_team_gw_stats, lines 869-894.  Two reads
\* of team_gw_stats; True when both come back and the sample has rows.
TestTeamGwStats ==
  /\ pc = "exited"
  /\ \E countOk \in BOOLEAN, sampleOk \in BOOLEAN :
       LET outcome == IF supabase_request("GET", countOk) /\ supabase_request("GET", sampleOk) /\ team_gw_stats
                      THEN "True" ELSE "False"
       IN /\ Fails(~countOk \/ ~sampleOk)
          /\ last_main' = [seq |-> 1, args |-> {"test_team_stats"}, ran |-> operations_run({"test_team_stats"}),
                           outcome |-> outcome, exit_status |-> main_exit_status("test_team_gw_stats", outcome)]
          /\ exit_status' = main_exit_status("test_team_gw_stats", outcome)
  /\ UNCHANGED <<envVars, upsertVars, requestVars, storeVars, state_file, mode, pc, cycleVars, refreshVars, histVars>>

NextModes ==
  \/ MainMode("once")
  \/ MainMode("refresh")
  \/ CheckOnce
  \/ RefreshCore
  \/ TestMonitoring
  \/ TestTeamGwStats
  \/ UpstreamAdvance
  \/ Tick

\* The store answers the count read with one row per finished gameweek, no
\* manager is registered and no player has taken the field.
InitModes ==
  /\ InitCommon
  /\ countAggregated = FALSE
  /\ user_entries = {}
  /\ fplPlaying = {}

SpecModes == InitModes /\ [][NextModes]_vars

\* C37: the state file changes only at the persist step of check_once, and
\* the store only at a step of perform_refresh: the test mode and the
\* aggregate-stats diagnostic write neither, and a forced refresh leaves the
\* state file as it is.
C37_OnlyCheckWritesSnapshot ==
  /\ [][state_file' # state_file => (pc = "persisting" /\ mode = "once")]_vars
  /\ [][storeVars' # storeVars => (pc \in RefreshPcs /\ mode \in {"once", "refresh"})]_vars
  /\ [][last_main' # last_main => (state_file' = state_file /\ storeVars' = storeVars)]_vars
  /\ [][mode = "refresh" => state_file' = state_file]_vars

\* C37 witness: a forced refresh has run to its end and the test mode has
\* sampled the store it filled, and there is still no state file.
C37_Witness ==
  /\ pc = "exited"
  /\ last_main.ran = {"test_monitoring"}
  /\ last_main.outcome = "True"
  /\ team_gw_stats /\ DOMAIN gameweeks # {}
  /\ ~state_file.exists

\* ---------------------------------------------------------------------------
\* One call of sync_user_picks_for_gameweek against ownership rows of the
\* registered managers: every manager and gameweek, every outcome of the
\* picks fetch and of the user lookup, every pick list and every pattern of
\* refused inserts.

\* What fetch_fpl_data gave for the picks document: a document with a 'picks'
\* list, None, or a document without the list.
PicksData == {"ok", "none", "no_picks"}

SyncUserPicksCall ==
  /\ ~last_picks.attempted
  /\ \E manager_id \in ManagerIds, gw \in GWs, picks_data \in PicksData, userOk \in BOOLEAN,
        picks \in SUBSET PlayerIds, deleteAcc \in BOOLEAN :
       \E postAcc \in SUBSET picks :
         LET fetched == picks_data = "ok"
             found == supabase_request("GET", userOk) /\ manager_id \in user_entries
         IN /\ user_player_ownership' =
                 sync_user_picks_rows(user_player_ownership, fetched, found, manager_id, gw, picks, deleteAcc, postAcc)
            /\ last_picks' = sync_user_picks_log(fetched, found, manager_id, gw, picks, deleteAcc, postAcc)
  /\ UNCHANGED <<envVars, unitVars, teams, players, gameweeks, fixtures, player_gw_stats, user_entries, team_gw_stats>>
  /\ UNCHANGED <<state_file, mode, pc, exit_status, cycleVars, histVars, faults>>
  /\ UNCHANGED <<bootstrap_data, core_success, gameweeks_to_refresh, gw_queue, manager_queue, picks_gw, last_stats>>

InitPicksCall ==
  /\ InitBesidesTable
  /\ table = EmptyTable
  /\ now = 0
  /\ state_file = NoFile
  /\ mode = "none"
  /\ pc = "exited"
  /\ current_metrics = EmptyDict
  /\ countAggregated = TRUE
  /\ user_entries = ManagerIds
  /\ fplPlaying = {}

OwnershipInputs ==
  {{<<u, p, g>> : u \in ManagerIds, p \in P, g \in G} : P \in SUBSET PlayerIds, G \in SUBSET GWs}

\* Ownership rows left by earlier syncs.
SeedOwnership ==
  /\ ~last_picks.attempted
  /\ user_player_ownership = {}
  /\ user_player_ownership' \in OwnershipInputs \ {{}}
  /\ UNCHANGED <<envVars, unitVars, teams, players, gameweeks, fixtures, player_gw_stats, user_entries, team_gw_stats>>
  /\ UNCHANGED <<state_file, mode, pc, exit_status, cycleVars, refreshVars, histVars, faults>>

SpecPicksCall == InitPicksCall /\ [][SeedOwnership \/ SyncUserPicksCall]_vars

\* C38: a picks sync whose picks fetch failed or gave no picks list, or whose
\* user lookup failed, returns False, sends neither the DELETE nor any POST,
\* and leaves every ownership row as it was.
C38_FailedPicksSyncWritesNothing ==
  [][(~last_picks.attempted /\ last_picks'.attempted /\ ~last_picks'.valid)
       => (/\ ~last_picks'.result
           /\ ~last_picks'.deleted
           /\ last_picks'.posted = {}
           /\ user_player_ownership' = user_player_ownership)]_vars

\* C38 witness: a picks sync that did not get to its writes has returned
\* False, and the rows the (user, gameweek) had are still there.
C38_Witness ==
  /\ last_picks.attempted /\ ~last_picks.valid
  /\ ~last_picks.result /\ ~last_picks.deleted /\ last_picks.posted = {}
  /\ OwnedBy(user_player_ownership, last_picks.user, last_picks.gw) # {}

\* ---------------------------------------------------------------------------
\* The read API (src/backend): PlayerService.get_players and the query it
\* hands to DatabaseConnection.execute_query.  A filter value is the text
\* after "column=": the operators in front (ops) and the number (val).

\* Prices a caller can ask for, in millions.
Prices == 0..MaxPrice

\* services.py, lines 48-67: the filters dict of get_players.  Both price
\* bounds are stored under the key 'now_cost'.
get_players_filters(team_id, min_price, max_price) ==
  LET f1 == IF team_id # NoneVal THEN DictSet(EmptyDict, "team_id", [ops |-> <<>>, val |-> team_id]) ELSE EmptyDict
      f2 == IF min_price # NoneVal THEN DictSet(f1, "now_cost", [ops |-> <<"gte">>, val |-> min_price * 10]) ELSE f1
      f3 == IF max_price # NoneVal THEN DictSet(f2, "now_cost", [ops |-> <<"lte">>, val |-> max_price * 10]) ELSE f2
  IN f3

\* database.py, lines 54-59: every filter value that is no list becomes
\* "eq.<value>".
execute_query_params(filters) ==
  [k \in DOMAIN filters |-> [ops |-> <<"eq">> \o filters[k].ops, val |-> filters[k].val]]

\* One call of get_players.
GetPlayers ==
  /\ \E team_id \in {NoneVal} \cup TeamIds, min_price \in {NoneVal} \cup Prices, max_price \in {NoneVal} \cup Prices :
       LET filters == get_players_filters(team_id, min_price, max_price)
       IN last_request' =
            [seq |-> 1, client |-> "backend", method |-> "GET", reply |-> "none", result |-> "none",
             log_entries |-> 0, logged_before |-> FALSE,
             query |-> [team_id |-> team_id, min_price |-> min_price, max_price |-> max_price,
                        filters |-> filters, params |-> execute_query_params(filters)]]
  /\ UNCHANGED <<envVars, storeVars, state_file, mode, pc, exit_status, cycleVars, refreshVars, histVars, faults, upsertVars, schema_error_logged, last_main>>

SpecQuery == InitClient /\ [][GetPlayers]_vars

\* The parameters constrain column col by operator op and number v.
Constrains(params, col, op, v) ==
  /\ Has(params, col)
  /\ params[col].val = v
  /\ \E i \in DOMAIN params[col].ops : params[col].ops[i] = op

\* C39 (as claimed): when get_players is given both min_price and max_price,
\* the parameters sent to the store constrain now_cost from both sides:
\* now_cost >= min_price * 10 and now_cost <= max_price * 10.
C39_PriceBoundedBothSides ==
  (/\ last_request.client = "backend"
   /\ last_request.query.min_price # NoneVal
   /\ last_request.query.max_price # NoneVal)
    => /\ Constrains(last_request.query.params, "now_cost", "gte", last_request.query.min_price * 10)
       /\ Constrains(last_request.query.params, "now_cost", "lte", last_request.query.max_price * 10)
====
